---------------------------- MODULE Spec2Model ----------------------------
(***************************************************************************)
(* CKY parser for English with agreement checking: a model of the CFG to   *)
(* CNF converter (cnf_converter.py), the CKY chart parser (cky_parser.py)  *)
(* and the parse tree converter (parse_tree_converter.py).                 *)
(*                                                                         *)
(* A grammar is the Python dict of lists, kept in insertion order: a       *)
(* sequence of entries [nt, prods], prods a sequence of productions, a     *)
(* production a sequence of symbols (strings).                             *)
(***************************************************************************)
EXTENDS Integers, Sequences, FiniteSets, TLC

VARIABLES
    pc,              \* position of the driver: which object acts next
    cfg,             \* the grammar the driver was given (main.py: self.cfg)
    converter,       \* the CFGtoCNFConverter object
    parser,          \* the CKYParser object
    sentence,        \* argument of the last CKYParser.parse call
    pos_constraints, \* argument of the last CKYParser.parse call (None or a list)
    chart,           \* local chart of the last parse call
    back,            \* local back-pointers of the last parse call
    result,          \* value returned by the last parse call
    tree_converter,  \* the ParseTreeConverter object
    converted,       \* value returned by the last ParseTreeConverter.convert call
    previous,        \* the converter as it was before its last convert_to_cnf call
    verb_subcat,     \* EnglishParser.verb_subcat: lemma -> entry
    agreement_rules, \* AgreementChecker.rules (the names of the rules)
    morph_result,    \* value returned by analyze_sentence in EnglishParser.parse
    agreement,       \* value returned by the validator in EnglishParser.parse
    record,          \* the result dict of EnglishParser.parse
    calls,           \* the calls EnglishParser.parse has made, in order
    invocations      \* thread -> the locals of its call of EnglishParser.parse

vars == <<pc, cfg, converter, parser, sentence, pos_constraints, chart, back,
          result, tree_converter, converted, previous, verb_subcat, agreement_rules,
          morph_result, agreement, record, calls, invocations>>

\* the state of EnglishParser that the converter and CKY drivers leave alone
english == <<verb_subcat, agreement_rules, morph_result, agreement, record, calls,
             invocations>>

(***************************************************************************)
(* Bounds of the model.                                                    *)
(***************************************************************************)
MaxRules == 3      \* productions in an input grammar
MaxLen == 3        \* tokens in a sentence

(***************************************************************************)
(* Symbols.                                                                *)
(***************************************************************************)
Eps == "ε"
None == "None"

\* an optional list: Python's None, or a list
NoList == [none |-> TRUE, list |-> <<>>]
Some(l) == [none |-> FALSE, list |-> l]

\* "if x:" for an optional list: neither None nor empty
Truthy(x) == ~x.none /\ x.list # <<>>

\* f"{prefix}{counter}"
VarName(prefix, k) == prefix \o ToString(k)

(***************************************************************************)
(* Generic helpers for Python lists and dicts.                             *)
(***************************************************************************)
Range(s) == {s[i] : i \in 1..Len(s)}

InList(x, s) == \E i \in 1..Len(s) : s[i] = x

RECURSIVE Concat(_)
Concat(ss) == IF ss = <<>> THEN <<>> ELSE Head(ss) \o Concat(Tail(ss))

\* s[:k]
Take(s, k) == SubSeq(s, 1, IF Len(s) < k THEN Len(s) ELSE k)

\* nt in grammar
HasKey(g, A) == \E i \in 1..Len(g) : g[i].nt = A

KeyIndex(g, A) == CHOOSE i \in 1..Len(g) : g[i].nt = A

Keys(g) == {g[i].nt : i \in 1..Len(g)}

\* grammar[nt] read without inserting (dict.get / iteration)
Prods(g, A) == IF HasKey(g, A) THEN g[KeyIndex(g, A)].prods ELSE <<>>

\* defaultdict(list) access grammar[nt]: inserts an empty list for a new key
Touch(g, A) == IF HasKey(g, A) THEN g ELSE Append(g, [nt |-> A, prods |-> <<>>])

\* grammar[nt].append(prod)
AppendProd(g, A, p) ==
    LET h == Touch(g, A)
    IN  [h EXCEPT ![KeyIndex(h, A)].prods = Append(@, p)]

\* AppendIfNew without the test "not in": the production is always appended
AppendIfNew_always(g, A, p) == AppendProd(Touch(g, A), A, p)

\* if prod not in grammar[nt]: grammar[nt].append(prod)
AppendIfNew(g, A, p) ==
    LET h == Touch(g, A)
    IN  IF InList(p, Prods(h, A)) THEN h ELSE AppendProd(h, A, p)

\* grammar[nt] = prods
SetProds(g, A, ps) ==
    LET h == Touch(g, A)
    IN  [h EXCEPT ![KeyIndex(h, A)].prods = ps]

\* for nt, productions in grammar.items(): for prod in productions: ...
RECURSIVE Items(_)
Items(g) ==
    IF g = <<>> THEN <<>>
    ELSE [k \in 1..Len(Head(g).prods) |-> <<Head(g).nt, Head(g).prods[k]>>]
         \o Items(Tail(g))

\* every (lhs, rhs) of a grammar, as a set
RuleSet(g) == Range(Items(g))


\* acc = Op(acc, x) for x in s, left to right
RECURSIVE FoldSeq(_, _, _)
FoldSeq(Op(_, _), acc, s) ==
    IF s = <<>> THEN acc
    ELSE LET next == Op(acc, Head(s))
         IN  \* the comparison has next computed before the next iteration starts
             IF next = next THEN FoldSeq(Op, next, Tail(s)) ELSE acc

\* the members of a set in one fixed enumeration order
RECURSIVE SetToSeq(_)
SetToSeq(S) ==
    IF S = {} THEN <<>>
    ELSE LET x == CHOOSE y \in S : TRUE IN <<x>> \o SetToSeq(S \ {x})

Reverse(s) == [i \in 1..Len(s) |-> s[Len(s) + 1 - i]]

(***************************************************************************)
(* CFGtoCNFConverter                                                       *)
(***************************************************************************)
\* CFGtoCNFConverter.__init__; start_symbol None
NewConverter ==
    [grammar |-> <<>>, terminals |-> {}, non_terminals |-> {},
     start_symbol |-> None, new_var_counter |-> 0]

\* prod == ['ε'] or prod == ['epsilon']
NormalizeProd(prod) == IF prod = <<Eps>> \/ prod = <<"epsilon">> THEN <<Eps>> ELSE prod

parse_grammar(c, grammar_rules, start_symbol) ==
    LET nts == Keys(grammar_rules)
        g == FoldSeq(LAMBDA acc, it : AppendProd(acc, it[1], NormalizeProd(it[2])),
                     <<>>, Items(grammar_rules))
        ts == {sym \in UNION {Range(it[2]) : it \in RuleSet(g)} :
                   sym \notin nts /\ sym # Eps}
    IN  [c EXCEPT !.grammar = g, !.non_terminals = nts, !.terminals = ts,
                  !.start_symbol = IF start_symbol \in nts THEN start_symbol ELSE "S"]

\* the loop of _generate_new_variable: the first counter value, from the
\* current one up, whose name is not a non-terminal
FreshIndex(c, prefix) ==
    CHOOSE k \in c.new_var_counter..(c.new_var_counter + Cardinality(c.non_terminals)) :
        /\ VarName(prefix, k) \notin c.non_terminals
        /\ \A m \in c.new_var_counter..(k - 1) : VarName(prefix, m) \in c.non_terminals

\* returns the new name and the converter with the counter advanced and
\* the name added to non_terminals
_generate_new_variable(c, prefix) ==
    LET k == FreshIndex(c, prefix)
    IN  [var |-> VarName(prefix, k),
         conv |-> [c EXCEPT !.new_var_counter = k + 1,
                            !.non_terminals = @ \cup {VarName(prefix, k)}]]

_start_symbol_on_rhs(c) ==
    \E it \in RuleSet(c.grammar) : InList(c.start_symbol, it[2])

_step1_add_new_start_symbol(c) ==
    IF _start_symbol_on_rhs(c)
    THEN LET r == _generate_new_variable(c, "S")
         IN  [r.conv EXCEPT !.grammar = SetProds(@, r.var, <<<<c.start_symbol>>>>),
                            !.start_symbol = r.var]
    ELSE c

\* the nullable set without the fixed-point loop: the direct ε-productions only
NullableClosure_direct(g, nullable) == nullable

\* one pass of the fixed-point loop, repeated until nothing changes
RECURSIVE NullableClosure(_, _)
NullableClosure(g, nullable) ==
    LET more == {it[1] : it \in {r \in RuleSet(g) :
                     \A i \in 1..Len(r[2]) : r[2][i] \in nullable}}
    IN  IF more \subseteq nullable THEN nullable
        ELSE NullableClosure(g, nullable \cup more)

_find_nullable_variables(c) ==
    NullableClosure(c.grammar, {it[1] : it \in {r \in RuleSet(c.grammar) : r[2] = <<Eps>>}})

\* itertools.combinations(s, r), in its order
RECURSIVE Combinations(_, _)
Combinations(s, r) ==
    IF r = 0 THEN << <<>> >>
    ELSE Concat([i \in 1..Len(s) |->
             LET rest == Combinations(SubSeq(s, i + 1, Len(s)), r - 1)
             IN  [k \in 1..Len(rest) |-> <<s[i]>> \o rest[k]]])

\* positions_to_remove for r in range(len(nullable_positions) + 1)
AllCombinations(s) == Concat([r1 \in 1..(Len(s) + 1) |-> Combinations(s, r1 - 1)])

\* [symbol for i, symbol in enumerate(prod) if i not in positions_to_remove]
RECURSIVE RemovePositions(_, _, _)
RemovePositions(prod, i, remove) ==
    IF i > Len(prod) THEN <<>>
    ELSE (IF InList(i, remove) THEN <<>> ELSE <<prod[i]>>)
         \o RemovePositions(prod, i + 1, remove)

\* the positions of the nullable symbols of prod, ascending
RECURSIVE NullablePositions(_, _, _)
NullablePositions(prod, i, nullable) ==
    IF i > Len(prod) THEN <<>>
    ELSE (IF prod[i] \in nullable THEN <<i>> ELSE <<>>)
         \o NullablePositions(prod, i + 1, nullable)

_step2_eliminate_epsilon_productions(c) ==
    LET nullable == _find_nullable_variables(c)
        OneProd(ng, it) ==
            IF it[2] = <<Eps>> THEN ng
            ELSE FoldSeq(LAMBDA acc, remove :
                             LET new_prod == RemovePositions(it[2], 1, remove)
                             IN  IF new_prod # <<>> THEN AppendIfNew(acc, it[1], new_prod)
                                 ELSE acc,
                         ng, AllCombinations(NullablePositions(it[2], 1, nullable)))
        ng1 == FoldSeq(OneProd, <<>>, Items(c.grammar))
        ng2 == IF c.start_symbol \in nullable
               THEN AppendProd(ng1, c.start_symbol, <<Eps>>) ELSE ng1
    IN  [c EXCEPT !.grammar = ng2]

\* len(prod) == 1 and prod[0] in self.non_terminals
IsUnitProd(c, prod) == Len(prod) = 1 /\ prod[1] \in c.non_terminals

\* the unit pairs without the closure loop
UnitClosure_direct(unit_pairs) == unit_pairs

\* one pass of the closure loop: unit_pairs.update(new_pairs)
UnitPass(unit_pairs) ==
    unit_pairs \cup {<<p[1][1], p[2][2]>> :
                        p \in {q \in unit_pairs \X unit_pairs : q[1][2] = q[2][1]}}

\* the closure loop: add every missing (a, d) with (a, b), (b, d) present,
\* until a pass adds nothing
RECURSIVE UnitClosure(_)
UnitClosure(unit_pairs) ==
    LET new_pairs == UNION {{<<ab[1], cd[2]>> : cd \in {q \in unit_pairs : q[1] = ab[2]}} :
                               ab \in unit_pairs} \ unit_pairs
    IN  IF new_pairs = {} THEN unit_pairs
        ELSE UnitClosure(unit_pairs \cup new_pairs)

UnitPairs(c) ==
    UnitClosure({<<nt, nt>> : nt \in c.non_terminals}
                \cup {<<it[1], it[2][1]>> : it \in {r \in RuleSet(c.grammar) :
                                                      IsUnitProd(c, r[2])}})

\* unit_pairs is a Python set of tuples: the order in which the final loop
\* visits it is not fixed by the language.  pair_order is that order.
Step3Build(c, pair_order) ==
    LET OnePair(ng, ab) ==
            IF HasKey(c.grammar, ab[2])
            THEN FoldSeq(LAMBDA acc, prod :
                             IF ~IsUnitProd(c, prod) THEN AppendIfNew(acc, ab[1], prod)
                             ELSE acc,
                         ng, Prods(c.grammar, ab[2]))
            ELSE ng
    IN  [c EXCEPT !.grammar = FoldSeq(OnePair, <<>>, pair_order)]

\* rev selects one of two visiting orders of the set unit_pairs
_step3_eliminate_unit_productions(c, rev) ==
    LET order == SetToSeq(UnitPairs(c))
    IN  Step3Build(c, IF rev THEN Reverse(order) ELSE order)

\* terminal_vars.get(symbol): terminal_vars is a list of <<terminal, var>>
TerminalVar(tv, symbol) == tv[CHOOSE i \in 1..Len(tv) : tv[i][1] = symbol][2]

\* the inner loop of step 4 over the symbols of one production
Step4Symbol(acc, symbol) ==
    IF symbol \in acc.conv.terminals
    THEN IF \E i \in 1..Len(acc.tv) : acc.tv[i][1] = symbol
         THEN [acc EXCEPT !.new_prod = Append(@, TerminalVar(acc.tv, symbol))]
         ELSE LET r == _generate_new_variable(acc.conv, "T")
              IN  [conv |-> r.conv,
                   tv |-> Append(acc.tv, <<symbol, r.var>>),
                   ng |-> SetProds(acc.ng, r.var, <<<<symbol>>>>),
                   new_prod |-> Append(acc.new_prod, r.var)]
    ELSE [acc EXCEPT !.new_prod = Append(@, symbol)]

Step4Prod(acc, it) ==
    IF Len(it[2]) = 1
    THEN [acc EXCEPT !.ng = AppendIfNew(@, it[1], it[2])]
    ELSE LET a == FoldSeq(Step4Symbol, [acc EXCEPT !.new_prod = <<>>], it[2])
         IN  [a EXCEPT !.ng = AppendIfNew(@, it[1], a.new_prod)]

_step4_replace_terminals_in_mixed_rules(c) ==
    LET a == FoldSeq(Step4Prod, [conv |-> c, tv |-> <<>>, ng |-> <<>>, new_prod |-> <<>>],
                     Items(c.grammar))
    IN  [a.conv EXCEPT !.grammar = a.ng]

\* for i in range(len(prod) - 2): one link of the chain
RECURSIVE Step5Chain(_, _, _, _)
Step5Chain(acc, prod, i, current_nt) ==
    IF i > Len(prod) - 2
    THEN [acc EXCEPT !.ng = AppendProd(@, current_nt,
                                       <<prod[Len(prod) - 1], prod[Len(prod)]>>)]
    ELSE LET r == _generate_new_variable(acc.conv, "Y")
         IN  Step5Chain([conv |-> r.conv,
                         ng |-> AppendProd(acc.ng, current_nt, <<prod[i], r.var>>)],
                        prod, i + 1, r.var)

Step5Prod(acc, it) ==
    IF Len(it[2]) <= 2
    THEN [acc EXCEPT !.ng = AppendIfNew(@, it[1], it[2])]
    ELSE Step5Chain(acc, it[2], 1, it[1])

_step5_break_long_productions(c) ==
    LET a == FoldSeq(Step5Prod, [conv |-> c, ng |-> <<>>], Items(c.grammar))
    IN  [a.conv EXCEPT !.grammar = a.ng]

convert_to_cnf(c, rev) ==
    _step5_break_long_productions(
        _step4_replace_terminals_in_mixed_rules(
            _step3_eliminate_unit_productions(
                _step2_eliminate_epsilon_productions(
                    _step1_add_new_start_symbol(c)), rev)))

is_valid_cnf(c) ==
    \A it \in RuleSet(c.grammar) :
        LET non_terminal == it[1]
            prod == it[2]
        IN  IF prod = <<Eps>>
            THEN /\ non_terminal = c.start_symbol
                 /\ \A r \in RuleSet(c.grammar) : ~InList(c.start_symbol, r[2])
            ELSE IF Len(prod) = 1 THEN prod[1] \in c.terminals
            ELSE IF Len(prod) = 2
                 THEN prod[1] \in c.non_terminals /\ prod[2] \in c.non_terminals
            ELSE FALSE

(***************************************************************************)
(* CKYParser                                                               *)
(*                                                                         *)
(* terminal_rules and binary_rules are dicts of lists: here the list of    *)
(* all (key, lhs) pairs in the order of the appends, which keeps the order *)
(* of every per-key list.                                                  *)
(* A tree is a Python tuple (label, item, ...): [k |-> "t", l |-> label,   *)
(* c |-> items], an item being a tuple or a bare string [k |-> "w",        *)
(* l |-> the string, c |-> <<>>].  A leaf is (label, word).                *)
(***************************************************************************)
\* CKYParser.__init__
NewParser ==
    [grammar |-> <<>>, terminals |-> {}, non_terminals |-> {}, start_symbol |-> "S",
     terminal_rules |-> <<>>, binary_rules |-> <<>>]

LoadRule(p, it) ==
    IF Len(it[2]) = 1
    THEN [p EXCEPT !.terminals = @ \cup {it[2][1]},
                   !.terminal_rules = Append(@, <<it[2][1], it[1]>>)]
    ELSE IF Len(it[2]) = 2
    THEN [p EXCEPT !.binary_rules = Append(@, <<it[2][1], it[2][2], it[1]>>)]
    ELSE p

load_grammar(p, grammar, start_symbol) ==
    FoldSeq(LoadRule,
            [p EXCEPT !.grammar = grammar, !.start_symbol = start_symbol,
                      !.non_terminals = Keys(grammar)],
            Items(grammar))

load_grammar_from_converter(p, c) == load_grammar(p, c.grammar, c.start_symbol)

\* self.terminal_rules.get(symbol, [])
TerminalLookup(p, symbol) ==
    LET hits == SelectSeq(p.terminal_rules, LAMBDA e : e[1] = symbol)
    IN  [i \in 1..Len(hits) |-> hits[i][2]]

\* self.binary_rules.get((b, c), [])
BinaryLookup(p, b, c) ==
    LET hits == SelectSeq(p.binary_rules, LAMBDA e : e[1] = b /\ e[2] = c)
    IN  [i \in 1..Len(hits) |-> hits[i][3]]

Word(w) == [k |-> "w", l |-> w, c |-> <<>>]
Tuple(label, items) == [k |-> "t", l |-> label, c |-> items]

\* len(tree) == 2 and isinstance(tree[1], str)
IsLeaf(node) == node.k = "t" /\ Len(node.c) = 1 /\ node.c[1].k = "w"

\* a chart cell is a Python set: the order of "for b in chart[i][k]" is not
\* fixed by the language; rev selects one of two orders for the whole call
CellOrder(cell, rev) == IF rev THEN Reverse(SetToSeq(cell)) ELSE SetToSeq(cell)

\* back[i][j] as the list of (nt, entry) in the order of the appends
BackOf(bk, i, j, nt) ==
    LET hits == SelectSeq(bk[<<i, j>>], LAMBDA e : e[1] = nt)
    IN  [x \in 1..Len(hits) |-> hits[x][2]]

\* DiagonalPos with the back-pointer of a lifted non-terminal left out
DiagonalPos_no_back(p, i, word, tag) ==
    [cell |-> {tag} \cup Range(TerminalLookup(p, tag)),
     bk |-> << <<tag, <<"terminal", word>>>> >>]

\* DiagonalPos that also gives the cell the non-terminals with a terminal
\* rule for the word itself
DiagonalPos_with_words(p, i, word, tag) ==
    LET nts == TerminalLookup(p, word)
    IN  [cell |-> {tag} \cup Range(TerminalLookup(p, tag)) \cup Range(nts),
         bk |-> << <<tag, <<"terminal", word>>>> >>
                \o [x \in 1..Len(TerminalLookup(p, tag)) |->
                       <<TerminalLookup(p, tag)[x], <<"node", tag, i, i>>>>]
                \o [x \in 1..Len(nts) |-> <<nts[x], <<"terminal", word>>>>]]

\* Step 1 with POS constraints, position i (0-based)
DiagonalPos(p, i, word, tag) ==
    LET lifted == FoldSeq(LAMBDA acc, nt :
                              IF nt \in acc.cell THEN acc
                              ELSE [cell |-> acc.cell \cup {nt},
                                    bk |-> Append(acc.bk, <<nt, <<"node", tag, i, i>>>>)],
                          [cell |-> {tag}, bk |-> << <<tag, <<"terminal", word>>>> >>],
                          TerminalLookup(p, tag))
    IN  lifted

\* DiagonalWord with a word of no terminal rule given every non-terminal
DiagonalWord_oov(p, i, word) ==
    LET found == TerminalLookup(p, word)
        nts == IF found = <<>> THEN SetToSeq(p.non_terminals) ELSE found
    IN  [cell |-> Range(nts),
         bk |-> [x \in 1..Len(nts) |-> <<nts[x], <<"terminal", word>>>>]]

\* Step 1 without POS constraints, position i (0-based)
DiagonalWord(p, i, word) ==
    LET nts == TerminalLookup(p, word)
    IN  [cell |-> Range(nts),
         bk |-> [x \in 1..Len(nts) |-> <<nts[x], <<"terminal", word>>>>]]

\* FillCell with the split points range(i, j - 1) instead of range(i, j)
FillCell_short(p, ch, i, j, rev) ==
    LET ks == [x \in 1..(j - i - 1) |-> i + x - 1]
        ForK(k) ==
            LET bs == CellOrder(ch[<<i, k>>], rev)
                cs == CellOrder(ch[<<k + 1, j>>], rev)
            IN  Concat([x \in 1..Len(bs) |->
                    Concat([y \in 1..Len(cs) |->
                        LET as == BinaryLookup(p, bs[x], cs[y])
                        IN  [z \in 1..Len(as) |->
                                <<as[z], <<"binary", bs[x], cs[y], k>>>>]])])
        bk == Concat([x \in 1..Len(ks) |-> ForK(ks[x])])
    IN  [cell |-> {bk[x][1] : x \in 1..Len(bk)}, bk |-> bk]

\* the loops over k, b, c, a for one cell (i, j), i < j
FillCell(p, ch, i, j, rev) ==
    LET ks == [x \in 1..(j - i) |-> i + x - 1]
        ForK(k) ==
            LET bs == CellOrder(ch[<<i, k>>], rev)
                cs == CellOrder(ch[<<k + 1, j>>], rev)
            IN  Concat([x \in 1..Len(bs) |->
                    Concat([y \in 1..Len(cs) |->
                        LET as == BinaryLookup(p, bs[x], cs[y])
                        IN  [z \in 1..Len(as) |->
                                <<as[z], <<"binary", bs[x], cs[y], k>>>>]])])
        bk == Concat([x \in 1..Len(ks) |-> ForK(ks[x])])
    IN  [cell |-> {bk[x][1] : x \in 1..Len(bk)}, bk |-> bk]

\* for span_length in range(2, n + 1): for i in range(n - span_length + 1)
Spans(n) ==
    Concat([sl \in 1..(n - 1) |-> [x \in 1..(n - sl) |-> <<x - 1, x - 1 + sl>>]])

\* chart and back after Step 1 and Step 2
FillChart(p, sentence_, pos, rev) ==
    LET n == Len(sentence_)
        idx == (0..(n - 1)) \X (0..(n - 1))
        diag(i) == IF Truthy(pos)
                   THEN DiagonalPos(p, i, sentence_[i + 1], pos.list[i + 1])
                   ELSE DiagonalWord(p, i, sentence_[i + 1])
        init == [chart |-> [ij \in idx |-> IF ij[1] = ij[2] THEN diag(ij[1]).cell ELSE {}],
                 back |-> [ij \in idx |-> IF ij[1] = ij[2] THEN diag(ij[1]).bk ELSE <<>>]]
    IN  FoldSeq(LAMBDA acc, ij :
                    LET f == FillCell(p, acc.chart, ij[1], ij[2], rev)
                    IN  [chart |-> [acc.chart EXCEPT ![ij] = f.cell],
                         back |-> [acc.back EXCEPT ![ij] = f.bk]],
                init, Spans(n))

\* max_trees=10, the default of _build_trees
MAX_TREES == 10

\* Products with the two subtrees exchanged: (nt, right, left)
Products_swapped(nt, left_trees, right_trees) ==
    Concat([x \in 1..Len(left_trees) |->
               [y \in 1..Len(right_trees) |->
                   Tuple(nt, <<right_trees[y], left_trees[x]>>)]])

\* the trees (nt, left, right) in the order of "for left ...: for right ..."
Products(nt, left_trees, right_trees) ==
    Concat([x \in 1..Len(left_trees) |->
               [y \in 1..Len(right_trees) |->
                   Tuple(nt, <<left_trees[x], right_trees[y]>>)]])

\* BinaryAppend without the return at len(trees) >= max_trees
BinaryAppend_no_return(trees, products, max_trees) ==
    [trees |-> trees \o products, returned |-> FALSE]

\* the inner double loop of the binary case: append the products one by one
\* and return as soon as len(trees) >= max_trees
BinaryAppend(trees, products, max_trees) ==
    LET need == IF max_trees - Len(trees) < 1 THEN 1 ELSE max_trees - Len(trees)
    IN  IF Len(products) >= need
        THEN [trees |-> trees \o SubSeq(products, 1, need), returned |-> TRUE]
        ELSE [trees |-> trees \o products, returned |-> FALSE]

RECURSIVE _build_trees(_, _, _, _, _)
_build_trees(bk, i, j, nt, max_trees) ==
    LET Entry(acc, entry) ==
            IF acc.returned THEN acc
            ELSE IF entry[1] = "terminal"
            THEN [acc EXCEPT !.trees = Append(@, Tuple(nt, <<Word(entry[2])>>))]
            ELSE IF entry[1] = "node"
            THEN LET child_trees == _build_trees(bk, entry[3], entry[4], entry[2], max_trees)
                 IN  [acc EXCEPT !.trees =
                         @ \o [x \in 1..Len(child_trees) |-> Tuple(nt, <<child_trees[x]>>)]]
            ELSE LET k == entry[4]
                     left_trees == Take(_build_trees(bk, i, k, entry[2], max_trees), max_trees)
                     right_trees == Take(_build_trees(bk, k + 1, j, entry[3], max_trees),
                                         max_trees)
                 IN  BinaryAppend(acc.trees, Products(nt, left_trees, right_trees),
                                  max_trees)
    IN  FoldSeq(Entry, [trees |-> <<>>, returned |-> FALSE],
                Take(BackOf(bk, i, j, nt), max_trees)).trees

\* CKYParser.parse: the returned pair, with the chart and back-pointers it
\* built (empty when it returns before building them)
parse(p, sentence_, pos, rev) ==
    LET n == Len(sentence_)
    IN  IF n = 0 \/ (Truthy(pos) /\ Len(pos.list) # n)
        THEN [success |-> FALSE, trees |-> NoList, chart |-> <<>>, back |-> <<>>]
        ELSE LET f == FillChart(p, sentence_, pos, rev)
                 success == p.start_symbol \in f.chart[<<0, n - 1>>]
             IN  [success |-> success,
                  trees |-> IF success
                            THEN Some(_build_trees(f.back, 0, n - 1, p.start_symbol,
                                                   MAX_TREES))
                            ELSE NoList,
                  chart |-> f.chart, back |-> f.back]

(***************************************************************************)
(* ParseTreeConverter                                                      *)
(***************************************************************************)
\* the largest number the model writes after a prefix
MaxVarIndex == 9

\* ParseTreeConverter.__init__
NewTreeConverter ==
    [auxiliary_prefixes |-> {"Y", "T", "S0"}, auxiliary_nts |-> {},
     original_grammar |-> <<>>, original_non_terminals |-> {}]

load_original_grammar(tc, grammar) ==
    [tc EXCEPT !.original_grammar = grammar, !.original_non_terminals = Keys(grammar)]

set_auxiliary_nts(tc, auxiliary_nts) == [tc EXCEPT !.auxiliary_nts = auxiliary_nts]

\* nt.startswith(prefix) and (len(nt) == len(prefix) or nt[len(prefix):].isdigit())
MatchesPrefix(nt, prefix) ==
    nt = prefix \/ \E d \in 0..MaxVarIndex : nt = VarName(prefix, d)

is_auxiliary(tc, nt) ==
    \/ tc.auxiliary_nts # {} /\ nt \in tc.auxiliary_nts
    \/ tc.original_non_terminals # {} /\ nt \notin tc.original_non_terminals
    \/ \E prefix \in tc.auxiliary_prefixes : MatchesPrefix(nt, prefix)

\* _convert_node splicing the children of an auxiliary child as they are,
\* without converting that child first
RECURSIVE _convert_node_unconverted(_, _)
_convert_node_unconverted(tc, node) ==
    IF IsLeaf(node) THEN node
    ELSE Tuple(node.l,
               Concat([x \in 1..Len(node.c) |->
                   IF node.c[x].k = "t" /\ is_auxiliary(tc, node.c[x].l)
                   THEN node.c[x].c
                   ELSE <<_convert_node_unconverted(tc, node.c[x])>>]))

RECURSIVE _convert_node(_, _)
_convert_node(tc, node) ==
    IF IsLeaf(node) THEN node
    ELSE Tuple(node.l,
               Concat([x \in 1..Len(node.c) |->
                   LET converted_child == _convert_node(tc, node.c[x])
                   IN  IF converted_child.k = "t" /\ is_auxiliary(tc, converted_child.l)
                       THEN converted_child.c
                       ELSE <<converted_child>>]))

\* ParseTreeConverter.convert on a tree returned by the parser
convert(tc, tree) == _convert_node(tc, tree)

(***************************************************************************)
(* AgreementChecker and the validator of EnglishParser                     *)
(*                                                                         *)
(* A feature map is a dict with string keys: here a record over the keys   *)
(* the code reads, a key the dict does not hold having the value Missing.  *)
(* An error message is the tuple of its kind and of the values the code    *)
(* interpolates into the f-string.                                         *)
(***************************************************************************)
Missing == "<missing>"

\* the dict without any key
NoFeatures ==
    [word |-> Missing, pos |-> Missing, lemma |-> Missing, num |-> Missing,
     person |-> Missing, tense |-> Missing, head_pos |-> Missing]

\* d.get(key, default)
Get(d, key, default) == IF d[key] = Missing THEN default ELSE d[key]

\* str.lower() on the lemmas of the model
Lower(s) ==
    CASE s = "Put" -> "put"
      [] s = "Many" -> "many"
      [] OTHER -> s

\* AgreementChecker._load_default_rules
DefaultRules ==
    {"dt_nn_agreement", "dt_nns_agreement", "subject_verb_agreement_vbz",
     "subject_verb_agreement_vbp"}

\* the pair (True, None)
Ok == [ok |-> TRUE, error |-> <<>>]

\* the pair (False, error)
Fail(error) == [ok |-> FALSE, error |-> error]

\* _check_dt_noun_agreement without the test dt_num == 'any'
_check_dt_noun_agreement_strict(dt_features, noun_features, noun_pos) ==
    LET dt_num == Get(dt_features, "num", "any")
        noun_num == IF noun_pos = "NN" THEN "sg"
                    ELSE IF noun_pos = "NNS" THEN "pl"
                    ELSE Get(noun_features, "num", "any")
    IN  IF dt_num = noun_num THEN Ok
        ELSE Fail(<<"DT-Noun number disagreement", dt_num, noun_pos, noun_num>>)

_check_dt_noun_agreement(dt_features, noun_features, noun_pos) ==
    LET dt_num == Get(dt_features, "num", "any")
        noun_num == IF noun_pos = "NN" THEN "sg"
                    ELSE IF noun_pos = "NNS" THEN "pl"
                    ELSE Get(noun_features, "num", "any")
    IN  IF dt_num = "any" THEN Ok
        ELSE IF dt_num = noun_num THEN Ok
        ELSE Fail(<<"DT-Noun number disagreement", dt_num, noun_pos, noun_num>>)

\* vp_features.get('head_pos') or vp_features.get('pos')
VerbPosOf(vp_features) ==
    IF vp_features.head_pos # Missing /\ vp_features.head_pos # ""
    THEN vp_features.head_pos
    ELSE vp_features.pos

_check_subject_verb_agreement(np_features, vp_features) ==
    LET subj_num == Get(np_features, "num", "any")
        subj_person == Get(np_features, "person", "any")
        verb_pos == VerbPosOf(vp_features)
        verb_tense == Get(vp_features, "tense", "any")
    IN  IF verb_tense = "past" THEN Ok
        ELSE IF verb_pos = "VBZ"
        THEN IF subj_person = "3" /\ subj_num = "sg" THEN Ok
             ELSE IF subj_person = "any" \/ subj_num = "any" THEN Ok
             ELSE Fail(<<"Subject-Verb disagreement", "VBZ", subj_person, subj_num>>)
        ELSE IF verb_pos = "VBP"
        THEN IF subj_person = "3" /\ subj_num = "sg"
             THEN Fail(<<"Subject-Verb disagreement", "VBP">>)
             ELSE Ok
        ELSE Ok

\* while j < len(pos_tags) and pos_tags[j] in ('JJ', 'JJR', 'JJS', 'RB'): j += 1
RECURSIVE SkipModifiers(_, _)
SkipModifiers(pos_tags, j) ==
    IF j <= Len(pos_tags) /\ pos_tags[j] \in {"JJ", "JJR", "JJS", "RB"}
    THEN SkipModifiers(pos_tags, j + 1)
    ELSE j

\* the while loop over the determiners, from position i on; positions count
\* from 1
RECURSIVE DtLoop(_, _, _, _)
DtLoop(features, pos_tags, i, errors) ==
    IF i > Len(pos_tags) THEN errors
    ELSE IF pos_tags[i] = "DT"
    THEN LET j == SkipModifiers(pos_tags, i + 1)
         IN  IF j <= Len(pos_tags) /\ pos_tags[j] \in {"NN", "NNS"}
             THEN LET r == _check_dt_noun_agreement(features[i], features[j], pos_tags[j])
                  IN  DtLoop(features, pos_tags, j + 1,
                             IF ~r.ok THEN Append(errors, r.error) ELSE errors)
             ELSE DtLoop(features, pos_tags, i + 1, errors)
    ELSE DtLoop(features, pos_tags, i + 1, errors)

\* subj_features: None, or a dict
NoSubject == [none |-> TRUE, f |-> NoFeatures]

Subject(f) == [none |-> FALSE, f |-> f]

\* {'num': noun_num, 'person': '3'}
ThirdPerson(noun_num) == Subject([NoFeatures EXCEPT !.num = noun_num, !.person = "3"])

NounNum(pos) == IF pos \in {"NN", "NNP"} THEN "sg" ELSE "pl"

\* pattern 9: the first position after the first whose tag is a noun or PRP
ExSubject(features, pos_tags) ==
    LET hits == {i \in 2..Len(pos_tags) :
                     pos_tags[i] \in {"NN", "NNS", "NNP", "NNPS", "PRP"}}
    IN  IF hits = {} THEN NoSubject
        ELSE LET i == CHOOSE x \in hits : \A y \in hits : x <= y
             IN  IF pos_tags[i] = "PRP" THEN Subject(features[i])
                 ELSE ThirdPerson(NounNum(pos_tags[i]))

\* patterns 1 to 9, an if / elif chain; pos_tags is not empty
SubjectPatterns1To9(features, pos_tags) ==
    LET n == Len(pos_tags)
    IN  IF pos_tags[1] = "PRP" THEN Subject(features[1])
        ELSE IF n >= 2 /\ pos_tags[1] = "DT" /\ pos_tags[2] \in {"NN", "NNS"}
        THEN ThirdPerson(IF pos_tags[2] = "NN" THEN "sg" ELSE "pl")
        ELSE IF n >= 3 /\ pos_tags[1] = "DT" /\ pos_tags[2] = "JJ"
                /\ pos_tags[3] \in {"NN", "NNS"}
        THEN ThirdPerson(IF pos_tags[3] = "NN" THEN "sg" ELSE "pl")
        ELSE IF pos_tags[1] \in {"NNP", "NNPS"}
        THEN ThirdPerson(IF pos_tags[1] = "NNP" THEN "sg" ELSE "pl")
        ELSE IF pos_tags[1] = "NNS" THEN ThirdPerson("pl")
        ELSE IF pos_tags[1] = "NN" THEN ThirdPerson("sg")
        ELSE IF n >= 2 /\ pos_tags[1] = "PRP$" /\ pos_tags[2] \in {"NN", "NNS"}
        THEN ThirdPerson(IF pos_tags[2] = "NN" THEN "sg" ELSE "pl")
        ELSE IF n >= 3 /\ pos_tags[1] = "PRP$" /\ pos_tags[2] = "JJ"
                /\ pos_tags[3] \in {"NN", "NNS"}
        THEN ThirdPerson(IF pos_tags[3] = "NN" THEN "sg" ELSE "pl")
        ELSE IF pos_tags[1] = "EX" THEN ExSubject(features, pos_tags)
        ELSE NoSubject

\* pattern 10: a coordinated subject is plural
CoordinatedSubject(pos_tags, subj) ==
    LET n == Len(pos_tags)
        first5 == 1..(IF n < 5 THEN n ELSE 5)
    IN  IF subj.none \/ \E i \in first5 : pos_tags[i] = "CC"
        THEN LET ccs == {i \in first5 : pos_tags[i] = "CC"}
             IN  IF ccs = {} THEN subj
                 ELSE LET cc_idx == CHOOSE x \in ccs : \A y \in ccs : x <= y
                          has_noun_before ==
                              \E i \in 1..(cc_idx - 1) :
                                  pos_tags[i] \in {"NN", "NNS", "NNP", "NNPS", "PRP"}
                          has_noun_after ==
                              /\ cc_idx + 1 <= n
                              /\ \E i \in (cc_idx + 1)..(cc_idx + 2) :
                                     /\ i <= n
                                     /\ pos_tags[i] \in
                                            {"NN", "NNS", "NNP", "NNPS", "PRP", "DT"}
                      IN  IF cc_idx > 1 /\ has_noun_before /\ has_noun_after
                          THEN ThirdPerson("pl")
                          ELSE subj
        ELSE subj

SINGULAR_INDEFINITES ==
    {"everyone", "everybody", "someone", "somebody", "anyone", "anybody", "no one",
     "nobody", "everything", "something", "anything", "nothing"}

PLURAL_INDEFINITES == {"many", "few", "several", "both"}

\* pattern 11
IndefiniteSubject(features, pos_tags, subj) ==
    IF subj.none /\ Len(pos_tags) > 0
    THEN LET first_word == IF Len(features) > 0 THEN Lower(Get(features[1], "lemma", ""))
                           ELSE ""
         IN  IF first_word \in SINGULAR_INDEFINITES THEN ThirdPerson("sg")
             ELSE IF first_word \in PLURAL_INDEFINITES THEN ThirdPerson("pl")
             ELSE subj
    ELSE subj

\* pattern 12: the first NN or NNS at the fourth to sixth position
QuantifierSubject(pos_tags, subj) ==
    LET n == Len(pos_tags)
    IN  IF subj.none /\ n >= 4
           /\ pos_tags[1] = "DT" /\ pos_tags[2] = "IN" /\ pos_tags[3] = "DT"
        THEN LET hits == {i \in 4..(IF n < 6 THEN n ELSE 6) : pos_tags[i] \in {"NN", "NNS"}}
             IN  IF hits = {} THEN subj
                 ELSE LET i == CHOOSE x \in hits : \A y \in hits : x <= y
                      IN  ThirdPerson(IF pos_tags[i] = "NN" THEN "sg" ELSE "pl")
        ELSE subj

\* the subject the validator identifies; pos_tags is not empty
FindSubject(features, pos_tags) ==
    QuantifierSubject(pos_tags,
        IndefiniteSubject(features, pos_tags,
            CoordinatedSubject(pos_tags, SubjectPatterns1To9(features, pos_tags))))

\* the position of the first tag in tags, 0 when there is none
FirstTagged(pos_tags, tags) ==
    LET hits == {i \in 1..Len(pos_tags) : pos_tags[i] \in tags}
    IN  IF hits = {} THEN 0 ELSE CHOOSE x \in hits : \A y \in hits : x <= y

\* {'head_pos': verb_pos, **verb_features}
WithHeadPos(verb_pos, verb_features) ==
    IF verb_features.head_pos = Missing
    THEN [verb_features EXCEPT !.head_pos = verb_pos]
    ELSE verb_features

\* the subject-verb part of the validator: the errors it appends
SubjectVerbErrors(features, pos_tags) ==
    LET subj == FindSubject(features, pos_tags)
        verb_idx == FirstTagged(pos_tags, {"VBZ", "VBP"})
    IN  IF ~subj.none /\ verb_idx # 0
        THEN LET r == _check_subject_verb_agreement(
                          subj.f, WithHeadPos(pos_tags[verb_idx], features[verb_idx]))
             IN  IF ~r.ok THEN <<r.error>> ELSE <<>>
        ELSE <<>>

\* an entry of verb_subcat in the dict format; keys is the set of the flags
\* the dict holds
DictEntry(keys, allows_np, requires_pp) ==
    [format |-> "dict", keys |-> keys, allows_np |-> allows_np,
     requires_pp |-> requires_pp, frames |-> {}]

\* an entry of verb_subcat in the old format, a list of frame types
ListEntry(frames) ==
    [format |-> "list", keys |-> {}, allows_np |-> FALSE, requires_pp |-> FALSE,
     frames |-> frames]

\* allows_np of a list entry read from 'transitive' alone
AllowsNp_transitive_only(verb_info) ==
    IF verb_info.format = "dict"
    THEN IF "allows_np" \in verb_info.keys THEN verb_info.allows_np ELSE TRUE
    ELSE "transitive" \in verb_info.frames

\* verb_info.get('allows_np', True), or 'transitive' in frames or
\* 'ditransitive' in frames
AllowsNp(verb_info) ==
    IF verb_info.format = "dict"
    THEN IF "allows_np" \in verb_info.keys THEN verb_info.allows_np ELSE TRUE
    ELSE "transitive" \in verb_info.frames \/ "ditransitive" \in verb_info.frames

\* verb_info.get('requires_pp', False), or 'pp_required' in frames
RequiresPp(verb_info) ==
    IF verb_info.format = "dict"
    THEN IF "requires_pp" \in verb_info.keys THEN verb_info.requires_pp ELSE FALSE
    ELSE "pp_required" \in verb_info.frames

VerbTags == {"VB", "VBD", "VBP", "VBZ", "VBG", "VBN"}

NpStartTags == {"DT", "PRP", "NNP", "NNPS", "CD", "PRP$", "NN", "NNS"}

\* has_np when the tag right after the verb is not looked at
HasNpAfter_anywhere(after_verb) == \E i \in 1..Len(after_verb) : after_verb[i] \in NpStartTags

\* has_np: the tag right after the verb starts a noun phrase
HasNpAfter(after_verb) == after_verb # <<>> /\ after_verb[1] \in NpStartTags

\* has_pp: an IN that is not the last tag
HasPpAfter(after_verb) ==
    \E i \in 1..Len(after_verb) : after_verb[i] = "IN" /\ i < Len(after_verb)

_check_verb_subcategorization(subcat, pos_tags, features) ==
    LET verb_idx == FirstTagged(pos_tags, VerbTags)
    IN  IF verb_idx = 0 THEN <<>>
        ELSE LET verb_lemma == Lower(Get(features[verb_idx], "lemma", ""))
             IN  IF verb_lemma \notin DOMAIN subcat THEN <<>>
                 ELSE LET verb_info == subcat[verb_lemma]
                          allows_np == AllowsNp(verb_info)
                          requires_pp == RequiresPp(verb_info)
                          after_verb == SubSeq(pos_tags, verb_idx + 1, Len(pos_tags))
                          has_np == HasNpAfter(after_verb)
                          has_pp == HasPpAfter(after_verb)
                      IN  (IF has_np /\ ~has_pp
                           THEN IF requires_pp
                                THEN << <<"requires a preposition with its object",
                                          verb_lemma>> >>
                                ELSE IF ~allows_np
                                THEN << <<"does not take a direct object (NP)",
                                          verb_lemma>> >>
                                ELSE <<>>
                           ELSE <<>>)
                          \o (IF requires_pp /\ ~has_pp /\ ~has_np
                                 /\ verb_idx < Len(pos_tags)
                              THEN << <<"requires a prepositional phrase", verb_lemma>> >>
                              ELSE <<>>)

\* EnglishParser._check_tree_agreements: the pair (ok, errors) it returns;
\* raised when pos_tags[0] raises IndexError
_check_tree_agreements(subcat, features, pos_tags) ==
    IF Len(pos_tags) = 0
    THEN [raised |-> TRUE, ok |-> FALSE, errors |-> <<>>]
    ELSE LET errors == DtLoop(features, pos_tags, 1, <<>>)
                       \o SubjectVerbErrors(features, pos_tags)
                       \o _check_verb_subcategorization(subcat, pos_tags, features)
         IN  [raised |-> FALSE, ok |-> Len(errors) = 0, errors |-> errors]

(***************************************************************************)
(* MorphologicalPreprocessor and EnglishParser.parse                       *)
(*                                                                         *)
(* A doc is the tagger's token sequence: each token with the flag is_punct *)
(* and the feature map analyze_sentence builds for it.                     *)
(***************************************************************************)
\* analyze_sentence: punctuation is skipped
analyze_sentence(doc) ==
    LET kept == SelectSeq(doc, LAMBDA t : ~t.is_punct)
    IN  [tokens |-> [i \in 1..Len(kept) |-> kept[i].features.word],
         pos_sequences |-> << [i \in 1..Len(kept) |-> kept[i].features] >>]

\* the test that lets a result with errors go on to the parser
ShortCircuits_never(agree) == FALSE

\* if not agreement_ok: the result returned without parsing
ShortCircuits(agree) == ~agree.ok

\* result['errors'].extend(agree_errors); result['grammatical'] = False
RejectedRecord(rec, agree_errors) ==
    [rec EXCEPT !.errors = @ \o agree_errors, !.grammatical = FALSE]

\* ParsedRecord that reports grammatical on success and keeps no tree
ParsedRecord_no_trees(rec, tc, success, trees) ==
    IF success /\ Truthy(trees)
    THEN [rec EXCEPT !.grammatical = TRUE]
    ELSE [rec EXCEPT !.errors = Append(@, <<"No valid parse found for POS sequence">>),
                     !.grammatical = FALSE]

\* the record after the parser call: the converted trees, or one error
ParsedRecord(rec, tc, success, trees) ==
    IF success /\ Truthy(trees)
    THEN [rec EXCEPT !.grammatical = TRUE,
                     !.parse_trees = @ \o [t \in 1..Len(trees.list) |->
                                              convert(tc, trees.list[t])]]
    ELSE [rec EXCEPT !.errors = Append(@, <<"No valid parse found for POS sequence">>),
                     !.grammatical = FALSE]

\* the validator's return value before the validator was called
NotChecked == [called |-> FALSE, raised |-> FALSE, ok |-> FALSE, errors |-> <<>>]

\* the result dict as parse creates it; the key 'tokens' is set later
NewResult ==
    [grammatical |-> FALSE, parse_trees |-> <<>>, pos_sequence |-> <<>>,
     errors |-> <<>>, tokens |-> NoList]

(***************************************************************************)
(* Inputs.                                                                 *)
(***************************************************************************)
\* the productions the grammars handed to the converter are made of:
\* epsilon and unit productions, a unit cycle, mixed and long right-hand
\* sides, nullable symbols inside a long rule, the start symbol on a
\* right-hand side, an ambiguous rule, a terminal named like a fresh variable
Pool ==
    << <<"S", <<"A", "B", "A">>>>,
       <<"S", <<"a", "S", "b">>>>,
       <<"S", <<"A">>>>,
       <<"S", <<"epsilon">>>>,
       <<"S", <<"S", "S">>>>,
       <<"S", <<"S", "S0">>>>,
       <<"S", <<"a">>>>,
       <<"A", <<"a">>>>,
       <<"A", <<Eps>>>>,
       <<"A", <<>>>>,
       <<"A", <<"B">>>>,
       <<"B", <<"b">>>>,
       <<"B", <<"A">>>> >>

\* the productions the CNF grammars loaded directly into the parser are made
\* of, with non-terminals named as the converter names them
CnfPool ==
    << <<"S", <<"S", "S">>>>,
       <<"S", <<"T0", "Y0">>>>,
       <<"S", <<"a">>>>,
       <<"T0", <<"a">>>>,
       <<"Y0", <<"T0", "T0">>>> >>

\* the dict a list of productions makes, keys in order of appearance
MakeGrammar(pool, idx) ==
    FoldSeq(LAMBDA acc, i : AppendProd(acc, pool[i][1], pool[i][2]), <<>>, idx)

\* every grammar of 1..MaxRules productions of the pool, in pool order; a
\* production may be listed more than once
GrammarsOf(pool) ==
    {MakeGrammar(pool, idx) : idx \in
        {s \in UNION {[1..n -> 1..Len(pool)] : n \in 1..MaxRules} :
            \A i \in 1..(Len(s) - 1) : s[i] <= s[i + 1]}}

InputGrammars == GrammarsOf(Pool)

\* the grammars loaded directly: those of GrammarsOf, and the whole pool, whose
\* chart cells hold two non-terminals that combine under one left-hand side
CnfGrammars == GrammarsOf(CnfPool) \cup {MakeGrammar(CnfPool, <<1, 2, 3, 4, 5>>)}

\* the tokens of the sentences parsed without POS constraints
Tokens == {"a", "b", "S0"}

Sentences == UNION {[1..n -> Tokens] : n \in 0..MaxLen}

\* the words and the POS tags of the sentences parsed with POS constraints
Words == {"a", "b"}

Tags == {"a", "b"}

TaggedSentences == UNION {[1..n -> Words] : n \in 0..MaxLen}

\* the POS constraint lists tried with a sentence: every list of its length,
\* and one list of every other length (parse reads only the length of those)
PosLists(w) ==
    {l \in UNION {[1..n -> Tags] : n \in 0..MaxLen} :
        Len(l) = Len(w) \/ \A i \in 1..Len(l) : l[i] = "a"}

\* the explicit auxiliary sets and the original grammars handed to the
\* tree converter
AuxiliarySets == {{"S"}}

OriginalGrammars == {MakeGrammar(CnfPool, <<3>>), MakeGrammar(CnfPool, <<3, 4>>)}

\* the largest number of tokens of the docs enumerated from the lexicon
MaxTokens == 3

\* the productions of the structural grammar of EnglishCFG the model keeps;
\* the POS tags are its terminals
EnglishRules ==
    << <<"S", <<"NP", "VP">>>>,
       <<"S", <<"NP", "VP", "PP">>>>,
       <<"S", <<"VP">>>>,
       <<"NP", <<"PRP">>>>,
       <<"NP", <<"NN">>>>,
       <<"NP", <<"NNS">>>>,
       <<"NP", <<"DT", "NN">>>>,
       <<"NP", <<"DT", "NNS">>>>,
       <<"NP", <<"DT", "JJ", "NN">>>>,
       <<"VP", <<"VBD">>>>,
       <<"VP", <<"VBP">>>>,
       <<"VP", <<"VBZ">>>>,
       <<"VP", <<"VBD", "NP">>>>,
       <<"VP", <<"VBP", "NP">>>>,
       <<"VP", <<"VBZ", "NP">>>>,
       <<"PP", <<"IN", "NP">>>> >>

\* self.cfg.get_grammar() before the lexicon terminals are added
EnglishGrammar == MakeGrammar(EnglishRules, [i \in 1..Len(EnglishRules) |-> i])

\* the POS tags and words of the lexicon files, as (tag, [word]) productions
LexiconRules ==
    << <<"PRP", <<"i">>>>, <<"PRP", <<"he">>>>, <<"PRP", <<"you">>>>,
       <<"DT", <<"a">>>>, <<"DT", <<"these">>>>, <<"DT", <<"the">>>>,
       <<"DT", <<"some">>>>, <<"JJ", <<"big">>>>, <<"JJ", <<"many">>>>,
       <<"NN", <<"cat">>>>, <<"NNS", <<"cats">>>>,
       <<"VBZ", <<"goes">>>>, <<"VBZ", <<"rose">>>>, <<"VBP", <<"put">>>>,
       <<"VBD", <<"went">>>>, <<"IN", <<"in">>>>, <<"CC", <<"and">>>>,
       <<"EX", <<"there">>>>, <<"VBD", <<"sat">>>> >>

\* _load_lexicon_terminals: a production [word] is added under its tag
\* unless it is there already
_load_lexicon_terminals(grammar) ==
    FoldSeq(LAMBDA acc, it : AppendIfNew(acc, it[1], it[2]), grammar, LexiconRules)

\* a token of a doc that is not punctuation
Tok(word, pos, lemma, num, person, tense) ==
    [is_punct |-> FALSE,
     features |-> [NoFeatures EXCEPT !.word = word, !.pos = pos, !.lemma = lemma,
                                     !.num = num, !.person = person, !.tense = tense]]

Punct == [is_punct |-> TRUE, features |-> [NoFeatures EXCEPT !.word = ".", !.pos = "."]]

\* the tokens of the model; rose is a VBZ that the tagger's morphology marks
\* as past
W_i == Tok("i", "PRP", "i", "sg", "1", Missing)
W_he == Tok("he", "PRP", "he", "sg", "3", Missing)
W_you == Tok("you", "PRP", "you", "any", "2", Missing)
W_a == Tok("a", "DT", "a", "sg", Missing, Missing)
W_these == Tok("these", "DT", "these", "pl", Missing, Missing)
W_the == Tok("the", "DT", "the", "any", Missing, Missing)
W_some == Tok("some", "DT", "some", Missing, Missing, Missing)
W_big == Tok("big", "JJ", "big", Missing, Missing, Missing)
W_cat == Tok("cat", "NN", "cat", "sg", Missing, Missing)
W_cats == Tok("cats", "NNS", "cat", "pl", Missing, Missing)
W_goes == Tok("goes", "VBZ", "go", "sg", "3", "pres")
W_rose == Tok("rose", "VBZ", "rise", "sg", "3", "past")
W_put == Tok("put", "VBP", "put", Missing, Missing, "pres")
W_went == Tok("went", "VBD", "go", Missing, Missing, "past")
W_in == Tok("in", "IN", "in", Missing, Missing, Missing)
W_and == Tok("and", "CC", "and", Missing, Missing, Missing)
W_there == Tok("there", "EX", "there", Missing, Missing, Missing)
W_sat == Tok("sat", "VBD", "sit", Missing, Missing, "past")
\* sentence-initial tokens whose lemma the tagger leaves capitalised
W_Many == Tok("many", "JJ", "Many", Missing, Missing, Missing)
W_Put == Tok("put", "VBP", "Put", Missing, Missing, "pres")

\* the tokens the docs of up to MaxTokens tokens are made of
Lexicon ==
    {W_i, W_he, W_a, W_these, W_the, W_big, W_cat, W_cats, W_goes, W_rose, W_put,
     W_went, W_in}

\* further docs: punctuation, a pronoun with num 'any', a determiner without
\* num, a verb without an entry in verb_subcat, an adjective before the
\* subject noun, a coordinated subject, a quantifier, there-insertion, an
\* indefinite, two determiners, a verb with an object and a prepositional
\* phrase, a coordinated subject whose second noun stands three tokens after
\* the conjunction, a conjunction followed by a determiner and no noun
FurtherDocs ==
    { <<Punct>>, <<W_he, W_goes, Punct>>, <<W_you, W_goes>>, <<W_you, W_put>>,
      <<W_some, W_cats>>, <<W_some, W_cat, W_goes>>, <<W_he, W_sat, W_cats>>,
      <<W_the, W_big, W_cat, W_goes>>, <<W_the, W_big, W_cats, W_goes>>,
      <<W_a, W_big, W_big, W_cats>>, <<W_he, W_and, W_he, W_goes>>,
      <<W_a, W_in, W_the, W_cats, W_put>>, <<W_a, W_in, W_the, W_cat, W_put>>,
      <<W_there, W_goes, W_cats>>, <<W_there, W_goes, W_cat>>,
      <<W_Many, W_goes>>, <<W_Many, W_put>>,
      <<W_a, W_cats, W_the, W_cat>>, <<W_a, W_cats, W_a, W_cats>>,
      <<W_he, W_put, W_the, W_cat, W_in, W_the, W_cat>>,
      <<W_he, W_goes, W_the, W_cat, W_in, W_the, W_cat>>,
      <<W_Put, W_cats, W_in, W_cats>>, <<W_he, W_goes, W_in, W_cats>>,
      <<W_he, W_put, W_in, W_cats>>,
      <<W_he, W_and, W_big, W_big, W_cats, W_put>>, <<W_he, W_and, W_the, W_goes>> }

\* the docs the tagger hands to analyze_sentence
Docs == UNION {[1..n -> Lexicon] : n \in 0..MaxTokens} \cup FurtherDocs

\* the verbs section of verb_subcategorization.json: an entry with a flag
\* left to its default, one in the old list format, one with both flags
VerbSubcat ==
    [lemma \in {"go", "put", "rise"} |->
        IF lemma = "go" THEN DictEntry({"allows_np"}, FALSE, FALSE)
        ELSE IF lemma = "put" THEN ListEntry({"pp_required"})
        ELSE DictEntry({"allows_np", "requires_pp"}, TRUE, TRUE)]

(***************************************************************************)
(* The driver: the calls of main.py (EnglishParser._load_resources, parse) *)
(* and of the demonstrations in cky_parser.py and parse_tree_converter.py. *)
(***************************************************************************)
Init ==
    /\ pc = "start"
    /\ cfg = <<>>
    /\ converter = NewConverter
    /\ parser = NewParser
    /\ sentence = <<>>
    /\ pos_constraints = NoList
    /\ chart = <<>>
    /\ back = <<>>
    /\ result = [success |-> FALSE, trees |-> NoList]
    /\ tree_converter = NewTreeConverter
    /\ converted = NoList
    /\ previous = NewConverter
    /\ verb_subcat = <<>>
    /\ agreement_rules = {}
    /\ morph_result = [tokens |-> <<>>, pos_sequences |-> << <<>> >>]
    /\ agreement = NotChecked
    /\ record = NewResult
    /\ calls = <<>>
    /\ invocations = <<>>

\* converter.parse_grammar(grammar)
ParseGrammar ==
    /\ pc = "start"
    /\ \E g \in InputGrammars :
           /\ cfg' = g
           /\ converter' = parse_grammar(converter, g, "S")
    /\ pc' = "parsed"
    /\ UNCHANGED <<english, previous, parser, sentence, pos_constraints, chart, back, result,
                   tree_converter, converted>>

\* converter.convert_to_cnf()
ConvertToCnf ==
    /\ pc = "parsed"
    /\ \E rev \in BOOLEAN : converter' = convert_to_cnf(converter, rev)
    /\ previous' = converter
    /\ pc' = "cnf"
    /\ UNCHANGED <<english, cfg, parser, sentence, pos_constraints, chart, back, result,
                   tree_converter, converted>>

\* converter.convert_to_cnf() once more, on the converter's own output
ConvertAgain ==
    /\ pc = "cnf"
    /\ \E rev \in BOOLEAN : converter' = convert_to_cnf(converter, rev)
    /\ previous' = converter
    /\ pc' = "cnf2"
    /\ UNCHANGED <<english, cfg, parser, sentence, pos_constraints, chart, back, result,
                   tree_converter, converted>>

\* parser = CKYParser(); parser.load_grammar_from_converter(converter)
LoadGrammarFromConverter ==
    /\ pc = "cnf"
    /\ parser' = load_grammar_from_converter(parser, converter)
    /\ pc' = "loaded"
    /\ UNCHANGED <<english, previous, cfg, converter, sentence, pos_constraints, chart, back, result,
                   tree_converter, converted>>

\* parser = CKYParser(); parser.load_grammar(grammar, start_symbol='S')
LoadGrammar ==
    /\ pc = "start"
    /\ \E g \in CnfGrammars :
           /\ cfg' = g
           /\ parser' = load_grammar(parser, g, "S")
    /\ pc' = "loaded"
    /\ UNCHANGED <<english, previous, converter, sentence, pos_constraints, chart, back, result,
                   tree_converter, converted>>

\* the effect of one call of parser.parse on the driver's variables
Call(w, pos, rev) ==
    LET r == parse(parser, w, pos, rev)
    IN  /\ sentence' = w
        /\ pos_constraints' = pos
        /\ chart' = r.chart
        /\ back' = r.back
        /\ result' = [success |-> r.success, trees |-> r.trees]
        /\ pc' = "result"
        /\ UNCHANGED <<english, previous, cfg, converter, parser, tree_converter, converted>>

\* success, trees = parser.parse(sentence)
Parse ==
    /\ pc = "loaded"
    /\ \E w \in Sentences, rev \in BOOLEAN : Call(w, NoList, rev)

\* success, trees = parser.parse(tokens, pos_constraints=pos_tags)
ParseConstrained ==
    /\ pc = "loaded"
    /\ \E w \in TaggedSentences, rev \in BOOLEAN :
           \E l \in PosLists(w) : Call(w, Some(l), rev)

\* tree_converter.set_auxiliary_nts(auxiliary_nts)
SetAuxiliaryNts ==
    /\ pc = "result"
    /\ result.success
    /\ tree_converter.auxiliary_nts = {}
    /\ \E aux \in AuxiliarySets : tree_converter' = set_auxiliary_nts(tree_converter, aux)
    /\ UNCHANGED <<english, previous, pc, cfg, converter, parser, sentence, pos_constraints, chart, back,
                   result, converted>>

\* tree_converter.load_original_grammar(grammar)
LoadOriginalGrammar ==
    /\ pc = "result"
    /\ result.success
    /\ tree_converter.original_non_terminals = {}
    /\ \E g \in OriginalGrammars : tree_converter' = load_original_grammar(tree_converter, g)
    /\ UNCHANGED <<english, previous, pc, cfg, converter, parser, sentence, pos_constraints, chart, back,
                   result, converted>>

\* original_tree = tree_converter.convert(tree), for a tree of the parse
Convert ==
    /\ pc = "result"
    /\ result.success
    /\ \E t \in 1..Len(result.trees.list) :
           converted' = [none |-> FALSE, tree |-> result.trees.list[t],
                         list |-> <<convert(tree_converter, result.trees.list[t])>>]
    /\ pc' = "converted"
    /\ UNCHANGED <<english, previous, cfg, converter, parser, sentence, pos_constraints, chart, back,
                   result, tree_converter>>

\* the parser on a CNF grammar loaded directly, and the tree converter
Next ==
    \/ LoadGrammar
    \/ Parse
    \/ ParseConstrained
    \/ SetAuxiliaryNts
    \/ LoadOriginalGrammar
    \/ Convert

Spec == Init /\ [][Next]_vars

\* the grammars of a second load_grammar call on a parser
ReloadGrammars ==
    {MakeGrammar(CnfPool, <<3>>), MakeGrammar(CnfPool, <<1, 3>>),
     MakeGrammar(CnfPool, <<2, 4, 5>>)}

\* parser.load_grammar(grammar, start_symbol='S') on the parser that holds a
\* grammar already: another grammar, or the same grammar again
LoadGrammarAgain ==
    /\ pc = "loaded"
    /\ \E g \in ReloadGrammars \cup {cfg} :
           /\ cfg' = g
           /\ parser' = load_grammar(parser, g, "S")
    /\ pc' = "reloaded"
    /\ UNCHANGED <<english, previous, converter, sentence, pos_constraints, chart, back, result,
                   tree_converter, converted>>

\* success, trees = parser.parse(sentence) after the second load
ParseReloaded ==
    /\ pc = "reloaded"
    /\ \E w \in Sentences, rev \in BOOLEAN :
           LET r == parse(parser, w, NoList, rev)
           IN  /\ sentence' = w
               /\ pos_constraints' = NoList
               /\ chart' = r.chart
               /\ back' = r.back
               /\ result' = [success |-> r.success, trees |-> r.trees]
    /\ pc' = "reparsed"
    /\ UNCHANGED <<english, previous, cfg, converter, parser, tree_converter, converted>>

\* one parser loaded twice, then used
NextReload ==
    \/ LoadGrammar
    \/ LoadGrammarAgain
    \/ ParseReloaded

SpecReload == Init /\ [][NextReload]_vars

\* the converter, and the parser on the grammar it produces
NextPipeline ==
    \/ ParseGrammar
    \/ ConvertToCnf
    \/ ConvertAgain
    \/ LoadGrammarFromConverter
    \/ Parse

SpecPipeline == Init /\ [][NextPipeline]_vars

(***************************************************************************)
(* EnglishParser: construction, then parse(sentence) step by step.         *)
(***************************************************************************)
\* EnglishParser.__init__
InitEnglish ==
    /\ pc = "ready"
    /\ cfg = _load_lexicon_terminals(EnglishGrammar)
    /\ \E rev \in BOOLEAN :
           converter = convert_to_cnf(parse_grammar(NewConverter, EnglishGrammar, "S"), rev)
    /\ previous = NewConverter
    /\ parser = load_grammar_from_converter(NewParser, converter)
    /\ tree_converter = load_original_grammar(NewTreeConverter, cfg)
    /\ agreement_rules = DefaultRules
    /\ verb_subcat = VerbSubcat
    /\ sentence = <<>>
    /\ pos_constraints = NoList
    /\ chart = <<>>
    /\ back = <<>>
    /\ result = [success |-> FALSE, trees |-> NoList]
    /\ converted = NoList
    /\ morph_result = [tokens |-> <<>>, pos_sequences |-> << <<>> >>]
    /\ agreement = NotChecked
    /\ record = NewResult
    /\ calls = <<>>
    /\ invocations = <<>>

\* parse, step 1: morph_result = self.preprocessor.analyze_sentence(sentence)
AnalyzeSentence ==
    /\ pc = "ready"
    /\ \E doc \in Docs :
           LET m == analyze_sentence(doc)
           IN  /\ morph_result' = m
               /\ record' = [NewResult EXCEPT
                                !.tokens = Some(m.tokens),
                                !.pos_sequence = [i \in 1..Len(m.pos_sequences[1]) |->
                                                      m.pos_sequences[1][i].pos]]
    /\ calls' = Append(calls, "analyze_sentence")
    /\ pc' = "analyzed"
    /\ UNCHANGED <<invocations, previous, cfg, converter, parser, sentence, pos_constraints, chart, back,
                   result, tree_converter, converted, verb_subcat, agreement_rules,
                   agreement>>

\* parse, step 2: the validator, and the return when it reports errors
CheckAgreements ==
    /\ pc = "analyzed"
    /\ LET r == _check_tree_agreements(verb_subcat, morph_result.pos_sequences[1],
                                       record.pos_sequence)
       IN  /\ agreement' = [called |-> TRUE, raised |-> r.raised, ok |-> r.ok,
                            errors |-> r.errors]
           /\ IF r.raised
              THEN pc' = "raised" /\ record' = record
              ELSE IF ShortCircuits(r)
              THEN pc' = "returned" /\ record' = RejectedRecord(record, r.errors)
              ELSE pc' = "validated" /\ record' = record
    /\ calls' = Append(calls, "_check_tree_agreements")
    /\ UNCHANGED <<invocations, previous, cfg, converter, parser, sentence, pos_constraints, chart, back,
                   result, tree_converter, converted, verb_subcat, agreement_rules,
                   morph_result>>

\* parse, step 3: self.cky_parser.parse(tokens_lower, pos_constraints=pos_tags)
CkyParse ==
    /\ pc = "validated"
    /\ \E rev \in BOOLEAN :
           LET tokens_lower == [i \in 1..Len(record.tokens.list) |->
                                    Lower(record.tokens.list[i])]
               r == parse(parser, tokens_lower, Some(record.pos_sequence), rev)
           IN  /\ sentence' = tokens_lower
               /\ pos_constraints' = Some(record.pos_sequence)
               /\ chart' = r.chart
               /\ back' = r.back
               /\ result' = [success |-> r.success, trees |-> r.trees]
    /\ calls' = Append(calls, "cky_parser.parse")
    /\ pc' = "parsed"
    /\ UNCHANGED <<invocations, previous, cfg, converter, parser, tree_converter, converted, verb_subcat,
                   agreement_rules, morph_result, agreement, record>>

\* parse, the end: the trees converted, or the error, and the return
BuildResult ==
    /\ pc = "parsed"
    /\ record' = ParsedRecord(record, tree_converter, result.success, result.trees)
    /\ calls' = IF result.success /\ Truthy(result.trees)
                THEN Append(calls, "tree_converter.convert") ELSE calls
    /\ pc' = "returned"
    /\ UNCHANGED <<invocations, previous, cfg, converter, parser, sentence, pos_constraints, chart, back,
                   result, tree_converter, converted, verb_subcat, agreement_rules,
                   morph_result, agreement>>

\* one call of EnglishParser.parse on a constructed parser
NextEnglish ==
    \/ AnalyzeSentence
    \/ CheckAgreements
    \/ CkyParse
    \/ BuildResult

SpecEnglish == InitEnglish /\ [][NextEnglish]_vars

(***************************************************************************)
(* Concurrent calls of EnglishParser.parse on one parser.  Every call has  *)
(* its own locals (the entry of invocations for its thread); cfg, parser,  *)
(* tree_converter, verb_subcat and agreement_rules are the parser's        *)
(* attributes, shared by the calls.  A step is a stretch of one call       *)
(* between two points where the interpreter may switch threads.            *)
(***************************************************************************)
Threads == {1, 2}

\* the sentences of the concurrent calls
ConcurrentDocs ==
    { <<Punct>>,
      <<W_a, W_cats>>,
      <<W_he, W_goes>>,
      <<W_cat, W_in>>,
      <<W_i, W_put, W_cats>>,
      <<W_the, W_big, W_cat, W_goes>>,
      <<W_he, W_went, W_the, W_cats, W_in, W_the, W_cat>> }

\* the locals of a call of parse before its first statement
NewCall ==
    [pc |-> "ready", sentence |-> <<>>, order |-> FALSE,
     morph_result |-> [tokens |-> <<>>, pos_sequences |-> << <<>> >>],
     agreement |-> NotChecked, record |-> NewResult,
     tokens_lower |-> <<>>, chart |-> <<>>, back |-> <<>>, spans |-> <<>>,
     result |-> [success |-> FALSE, trees |-> NoList]]

\* features with the verb's map given the key head_pos in place
FeaturesAfterCheck_in_place(features, pos_tags) ==
    LET v == FirstTagged(pos_tags, {"VBZ", "VBP"})
    IN  IF v = 0 THEN features
        ELSE [features EXCEPT ![v] = WithHeadPos(pos_tags[v], @)]

\* the caller's feature list after _check_tree_agreements: the validator
\* reads the maps with get and copies the verb's map into a new dict before
\* it adds head_pos
FeaturesAfterCheck(features, pos_tags) == features

\* chart and back after Step 1 of CKYParser.parse with POS constraints
ChartDiagonal(p, tokens, pos_tags) ==
    LET n == Len(tokens)
        idx == (0..(n - 1)) \X (0..(n - 1))
        diag(i) == DiagonalPos(p, i, tokens[i + 1], pos_tags[i + 1])
    IN  [chart |-> [ij \in idx |-> IF ij[1] = ij[2] THEN diag(ij[1]).cell ELSE {}],
         back |-> [ij \in idx |-> IF ij[1] = ij[2] THEN diag(ij[1]).bk ELSE <<>>]]

\* the thread calls parse(sentence)
CallParse(t) ==
    /\ pc = "concurrent"
    /\ invocations[t].pc = "ready"
    /\ \E doc \in ConcurrentDocs :
           LET m == analyze_sentence(doc)
           IN  invocations' =
                   [invocations EXCEPT
                       ![t] = [@ EXCEPT
                                  !.pc = "analyzed",
                                  !.sentence = doc,
                                  !.morph_result = m,
                                  !.record = [NewResult EXCEPT
                                      !.tokens = Some(m.tokens),
                                      !.pos_sequence =
                                          [i \in 1..Len(m.pos_sequences[1]) |->
                                               m.pos_sequences[1][i].pos]]]]
    /\ UNCHANGED <<pc, cfg, converter, parser, sentence, pos_constraints, chart, back,
                   result, tree_converter, converted, previous, verb_subcat,
                   agreement_rules, morph_result, agreement, record, calls>>

\* the validator, and the return when it reports errors
ThreadCheckAgreements(t) ==
    /\ pc = "concurrent"
    /\ invocations[t].pc = "analyzed"
    /\ LET c == invocations[t]
           features == c.morph_result.pos_sequences[1]
           r == _check_tree_agreements(verb_subcat, features, c.record.pos_sequence)
           after == [c EXCEPT
                        !.agreement = [called |-> TRUE, raised |-> r.raised, ok |-> r.ok,
                                       errors |-> r.errors],
                        !.morph_result.pos_sequences =
                            << IF r.raised THEN features
                               ELSE FeaturesAfterCheck(features, c.record.pos_sequence) >>]
       IN  invocations' =
               [invocations EXCEPT
                   ![t] = IF r.raised THEN [after EXCEPT !.pc = "raised"]
                          ELSE IF ShortCircuits(r)
                          THEN [after EXCEPT !.pc = "returned",
                                             !.record = RejectedRecord(@, r.errors)]
                          ELSE [after EXCEPT !.pc = "validated"]]
    /\ UNCHANGED <<pc, cfg, converter, parser, sentence, pos_constraints, chart, back,
                   result, tree_converter, converted, previous, verb_subcat,
                   agreement_rules, morph_result, agreement, record, calls>>

\* CKYParser.parse up to the end of Step 1: the chart and the back-pointers
\* are created as locals of the call, and the diagonal is filled
ThreadFillDiagonal(t) ==
    /\ pc = "concurrent"
    /\ invocations[t].pc = "validated"
    /\ LET c == invocations[t]
           tokens_lower == [i \in 1..Len(c.record.tokens.list) |->
                                Lower(c.record.tokens.list[i])]
           pos_tags == c.record.pos_sequence
           n == Len(tokens_lower)
       IN  invocations' =
               [invocations EXCEPT
                   ![t] = IF n = 0 \/ (Truthy(Some(pos_tags)) /\ Len(pos_tags) # n)
                          THEN [c EXCEPT !.pc = "parsed", !.tokens_lower = tokens_lower]
                          ELSE LET d == ChartDiagonal(parser, tokens_lower, pos_tags)
                               IN  [c EXCEPT !.pc = "filling",
                                             !.tokens_lower = tokens_lower,
                                             !.chart = d.chart,
                                             !.back = d.back,
                                             !.spans = Spans(n)]]
    /\ UNCHANGED <<pc, cfg, converter, parser, sentence, pos_constraints, chart, back,
                   result, tree_converter, converted, previous, verb_subcat,
                   agreement_rules, morph_result, agreement, record, calls>>

\* Step 2 of CKYParser.parse for one cell (i, j)
ThreadFillCell(t) ==
    /\ pc = "concurrent"
    /\ invocations[t].pc = "filling"
    /\ invocations[t].spans # <<>>
    /\ LET c == invocations[t]
           ij == Head(c.spans)
           f == FillCell(parser, c.chart, ij[1], ij[2], c.order)
       IN  invocations' =
               [invocations EXCEPT
                   ![t] = [c EXCEPT !.chart = [@ EXCEPT ![ij] = f.cell],
                                    !.back = [@ EXCEPT ![ij] = f.bk],
                                    !.spans = Tail(@)]]
    /\ UNCHANGED <<pc, cfg, converter, parser, sentence, pos_constraints, chart, back,
                   result, tree_converter, converted, previous, verb_subcat,
                   agreement_rules, morph_result, agreement, record, calls>>

\* the end of CKYParser.parse: success, and the trees built from back
ThreadBuildTrees(t) ==
    /\ pc = "concurrent"
    /\ invocations[t].pc = "filling"
    /\ invocations[t].spans = <<>>
    /\ LET c == invocations[t]
           n == Len(c.tokens_lower)
           success == parser.start_symbol \in c.chart[<<0, n - 1>>]
       IN  invocations' =
               [invocations EXCEPT
                   ![t] = [c EXCEPT
                              !.pc = "parsed",
                              !.result =
                                  [success |-> success,
                                   trees |-> IF success
                                             THEN Some(_build_trees(c.back, 0, n - 1,
                                                                    parser.start_symbol,
                                                                    MAX_TREES))
                                             ELSE NoList]]]
    /\ UNCHANGED <<pc, cfg, converter, parser, sentence, pos_constraints, chart, back,
                   result, tree_converter, converted, previous, verb_subcat,
                   agreement_rules, morph_result, agreement, record, calls>>

\* the trees converted, or the error, and the return of parse
ThreadBuildResult(t) ==
    /\ pc = "concurrent"
    /\ invocations[t].pc = "parsed"
    /\ invocations' =
           [invocations EXCEPT
               ![t] = [@ EXCEPT !.pc = "returned",
                                !.record = ParsedRecord(@, tree_converter,
                                                        invocations[t].result.success,
                                                        invocations[t].result.trees)]]
    /\ UNCHANGED <<pc, cfg, converter, parser, sentence, pos_constraints, chart, back,
                   result, tree_converter, converted, previous, verb_subcat,
                   agreement_rules, morph_result, agreement, record, calls>>

\* a parser constructed, and two threads about to call parse on it; the
\* iteration order of the sets is that of the process, the same in every call
InitConcurrent ==
    /\ pc = "concurrent"
    /\ cfg = _load_lexicon_terminals(EnglishGrammar)
    /\ \E rev \in BOOLEAN :
           converter = convert_to_cnf(parse_grammar(NewConverter, EnglishGrammar, "S"), rev)
    /\ previous = NewConverter
    /\ parser = load_grammar_from_converter(NewParser, converter)
    /\ tree_converter = load_original_grammar(NewTreeConverter, cfg)
    /\ agreement_rules = DefaultRules
    /\ verb_subcat = VerbSubcat
    /\ sentence = <<>>
    /\ pos_constraints = NoList
    /\ chart = <<>>
    /\ back = <<>>
    /\ result = [success |-> FALSE, trees |-> NoList]
    /\ converted = NoList
    /\ morph_result = [tokens |-> <<>>, pos_sequences |-> << <<>> >>]
    /\ agreement = NotChecked
    /\ record = NewResult
    /\ calls = <<>>
    /\ \E order \in BOOLEAN :
           invocations = [t \in Threads |-> [NewCall EXCEPT !.order = order]]

\* the threads take their steps in any order
NextConcurrent ==
    \/ \E t \in Threads : CallParse(t)
    \/ \E t \in Threads : ThreadCheckAgreements(t)
    \/ \E t \in Threads : ThreadFillDiagonal(t)
    \/ \E t \in Threads : ThreadFillCell(t)
    \/ \E t \in Threads : ThreadBuildTrees(t)
    \/ \E t \in Threads : ThreadBuildResult(t)

SpecConcurrent == InitConcurrent /\ [][NextConcurrent]_vars

(***************************************************************************)
(* Derivability in a context-free grammar, for the claims: the triples     *)
(* <<X, i, j>> such that symbol X derives the tokens w[i+1..j], as the     *)
(* least set closed under the productions.  A symbol that is no key of the *)
(* grammar is a terminal and derives itself; ['ε'] and ['epsilon'] are the *)
(* empty right-hand side.                                                  *)
(***************************************************************************)
IsEpsilonProd(prod) == prod = <<Eps>> \/ prod = <<"epsilon">>

\* the positions where X, started at position q, can end
EndsOf(g, w, D, X, q) ==
    IF HasKey(g, X) THEN {r \in q..Len(w) : <<X, q, r>> \in D}
    ELSE IF q < Len(w) /\ w[q + 1] = X THEN {q + 1} ELSE {}

\* the positions where rhs[k..], started at one of the positions from, can end
RECURSIVE EndsOfSeq(_, _, _, _, _, _)
EndsOfSeq(g, w, D, rhs, k, from) ==
    IF k > Len(rhs) \/ from = {} THEN from
    ELSE EndsOfSeq(g, w, D, rhs, k + 1, UNION {EndsOf(g, w, D, rhs[k], q) : q \in from})

RECURSIVE DerivesClosure(_, _, _)
DerivesClosure(g, w, D) ==
    LET more == {<<it[1], i, j>> : it \in RuleSet(g), i \in 0..Len(w), j \in 0..Len(w)}
        new == {t \in more \ D :
                   \E it \in RuleSet(g) :
                       /\ it[1] = t[1]
                       /\ IF IsEpsilonProd(it[2]) THEN t[2] = t[3]
                          ELSE t[3] \in EndsOfSeq(g, w, D, it[2], 1, {t[2]})}
    IN  IF new = {} THEN D ELSE DerivesClosure(g, w, D \cup new)

\* w is derivable from start in g
Derivable(g, start, w) ==
    IF HasKey(g, start) THEN <<start, 0, Len(w)>> \in DerivesClosure(g, w, {})
    ELSE w = <<start>>

(***************************************************************************)
(* Properties.  A parse has built its chart when DOMAIN chart # {}; after *)
(* a call that returned before building it, chart = <<>>.                  *)
(***************************************************************************)
Parsed == pc \in {"result", "converted"}

Filled == Parsed /\ DOMAIN chart # {}

\* the rule lhs -> rhs is a production of the grammar loaded in the parser
HasRule(lhs, rhs) == <<lhs, rhs>> \in RuleSet(parser.grammar)

\* the words at the leaves of a tree, left to right
RECURSIVE Yield(_)
Yield(node) ==
    IF node.k = "w" THEN <<node.l>>
    ELSE Concat([x \in 1..Len(node.c) |-> Yield(node.c[x])])

\* the (label, word) pairs of the leaves of a tree, left to right
RECURSIVE Leaves(_)
Leaves(node) ==
    IF node.k = "w" THEN <<>>
    ELSE IF IsLeaf(node) THEN << <<node.l, node.c[1].l>> >>
    ELSE Concat([x \in 1..Len(node.c) |-> Leaves(node.c[x])])

\* C1: for every grammar G with start symbol S and every non-empty token
\* sequence w, parse without POS constraints on the grammar and start symbol
\* produced by convert_to_cnf accepts w if and only if w is derivable from S
\* in G.
C1_LanguagePreserved ==
    pc = "result" /\ sentence # <<>> =>
        (result.success <=> Derivable(cfg, "S", sentence))

\* C2: after convert_to_cnf on any input grammar, is_valid_cnf holds.
C2_ValidCnf == pc = "cnf" => is_valid_cnf(converter)

\* C3: when parse has filled the chart for a sentence of length n, a
\* non-terminal A is in chart[i][j], i < j, iff a split k, B in chart[i][k],
\* C in chart[k+1][j] and a rule A -> B C exist; chart[i][i] is {A : A -> w_i}
\* without POS constraints and {p_i} with every A that has a rule A -> p_i
\* with them; success is returned exactly when the start symbol is in
\* chart[0][n-1].
C3_Chart ==
    Filled =>
        LET n == Len(sentence)
            Lhs(rhs) == {it[1] : it \in {r \in RuleSet(parser.grammar) : r[2] = rhs}}
            Splits(i, j) ==
                {r \in RuleSet(parser.grammar) :
                    /\ Len(r[2]) = 2
                    /\ \E k \in i..(j - 1) :
                           r[2][1] \in chart[<<i, k>>] /\ r[2][2] \in chart[<<k + 1, j>>]}
        IN  /\ \A i \in 0..(n - 1), j \in 0..(n - 1) :
                   i < j => chart[<<i, j>>] = {r[1] : r \in Splits(i, j)}
            /\ \A i \in 0..(n - 1) :
                   chart[<<i, i>>] =
                       IF Truthy(pos_constraints)
                       THEN {pos_constraints.list[i + 1]}
                                \cup Lhs(<<pos_constraints.list[i + 1]>>)
                       ELSE Lhs(<<sentence[i + 1]>>)
            /\ result.success <=> parser.start_symbol \in chart[<<0, n - 1>>]

\* C3's case: a sentence of three tokens parsed with POS constraints, accepted
C3_Witness ==
    /\ Filled
    /\ Len(sentence) = 3
    /\ Truthy(pos_constraints)
    /\ result.success
    /\ \E k \in 0..1 : chart[<<0, k>>] # {} /\ chart[<<k + 1, 2>>] # {}

\* C4: for every grammar, sentence and optional POS constraint sequence, parse
\* returns success exactly when the list of trees it returns is non-empty:
\* every non-terminal placed in a chart cell has a back-pointer, and its
\* back-pointers expand to at least one tree.
C4_SuccessIffTrees ==
    Parsed =>
        /\ result.success <=> (~result.trees.none /\ result.trees.list # <<>>)
        /\ \A ij \in DOMAIN chart :
               \A nt \in chart[ij] :
                   /\ BackOf(back, ij[1], ij[2], nt) # <<>>
                   /\ _build_trees(back, ij[1], ij[2], nt, MAX_TREES) # <<>>

\* C4's case: an accepted sentence of three tokens whose chart holds
\* non-terminals lifted from POS tags
C4_Witness ==
    /\ Filled
    /\ Len(sentence) = 3
    /\ result.success
    /\ \E i \in 0..2 : \E nt \in chart[<<i, i>>] :
           \E x \in 1..Len(back[<<i, i>>]) :
               back[<<i, i>>][x][1] = nt /\ back[<<i, i>>][x][2][1] = "node"

\* a tree is a derivation: (A, left, right) is a rule A -> label(left)
\* label(right), (A, child) is a rule A -> label(child), and a leaf (A, word)
\* read without POS constraints is a rule A -> word
RECURSIVE IsDerivation(_)
IsDerivation(node) ==
    /\ node.k = "t"
    /\ IF IsLeaf(node)
       THEN Truthy(pos_constraints) \/ HasRule(node.l, <<node.c[1].l>>)
       ELSE /\ Len(node.c) \in {1, 2}
            /\ \A x \in 1..Len(node.c) : IsDerivation(node.c[x])
            /\ HasRule(node.l, [x \in 1..Len(node.c) |-> node.c[x].l])

\* C5: every tree returned by parse is a derivation of the input: its root is
\* the start symbol, every binary and every unit node is a rule of the loaded
\* grammar, and the words at its leaves, left to right, are the input tokens
\* (with POS constraints, the labels of its leaves are the tags).
C5_TreesAreDerivations ==
    Parsed /\ result.success =>
        \A t \in 1..Len(result.trees.list) :
            LET tree == result.trees.list[t]
            IN  /\ tree.l = parser.start_symbol
                /\ IsDerivation(tree)
                /\ Yield(tree) = sentence
                /\ Truthy(pos_constraints) =>
                       [x \in 1..Len(Leaves(tree)) |-> Leaves(tree)[x][1]]
                           = pos_constraints.list

\* C5's case: a returned tree with a binary node over a unit node, reading
\* tokens that differ
C5_Witness ==
    /\ Parsed
    /\ result.success
    /\ \E x, y \in 1..Len(sentence) : sentence[x] # sentence[y]
    /\ \E t \in 1..Len(result.trees.list) :
           LET tree == result.trees.list[t]
           IN  /\ Len(tree.c) = 2
               /\ \E x \in 1..2 : Len(tree.c[x].c) = 1 /\ ~IsLeaf(tree.c[x])

\* C6: tree extraction is bounded: for every non-terminal and span
\* _build_trees returns at most MAX_TREES trees, and parse returns at most
\* MAX_TREES trees.
C6_BoundedTrees ==
    Parsed =>
        /\ Len(result.trees.list) <= MAX_TREES
        /\ \A ij \in DOMAIN chart :
               \A nt \in parser.non_terminals \cup chart[ij] :
                   Len(_build_trees(back, ij[1], ij[2], nt, MAX_TREES)) <= MAX_TREES

\* C6's case: the back-pointers of the root expand to more than MAX_TREES
\* trees, and MAX_TREES are returned
C6_Witness ==
    /\ Filled
    /\ result.success
    /\ Len(result.trees.list) = MAX_TREES
    /\ Len(_build_trees(back, 0, Len(sentence) - 1, parser.start_symbol, 2 * MAX_TREES))
           > MAX_TREES

\* C7: parse returns failure with no trees whenever the sentence is empty or
\* a POS constraint sequence is supplied whose length differs from the
\* sentence length, the empty sequence given with a non-empty sentence
\* included.
C7_MismatchFails ==
    /\ Parsed
    /\ \/ sentence = <<>>
       \/ ~pos_constraints.none /\ Len(pos_constraints.list) # Len(sentence)
    => ~result.success /\ result.trees.none

\* C8: without POS constraints, if a token of the sentence has no terminal
\* rule in the loaded grammar, its diagonal cell is empty, every chart cell
\* whose span covers its position is empty, and the call returns failure with
\* no trees.
C8_UnknownToken ==
    Filled /\ pos_constraints.none =>
        \A p \in 0..(Len(sentence) - 1) :
            (~\E A \in parser.non_terminals : HasRule(A, <<sentence[p + 1]>>)) =>
                /\ chart[<<p, p>>] = {}
                /\ \A i \in 0..p, j \in p..(Len(sentence) - 1) : chart[<<i, j>>] = {}
                /\ ~result.success
                /\ result.trees.none

\* C8's case: three tokens, the last without a terminal rule, the span of the
\* first two not empty
C8_Witness ==
    /\ Filled
    /\ pos_constraints.none
    /\ Len(sentence) = 3
    /\ ~\E A \in parser.non_terminals : HasRule(A, <<sentence[3]>>)
    /\ chart[<<0, 1>>] # {}
    /\ ~result.success

\* what a node of the input contributes to the child list of its parent: an
\* auxiliary node its own contribution spliced in place, any other node itself
RECURSIVE Spliced(_, _)
Spliced(tc, node) ==
    LET below == Concat([x \in 1..Len(node.c) |-> Spliced(tc, node.c[x])])
    IN  IF node.k = "w" THEN <<node>>
        ELSE IF is_auxiliary(tc, node.l) THEN below
        ELSE <<Tuple(node.l, below)>>

\* no node below this one has an auxiliary label
RECURSIVE NoAuxiliaryBelow(_, _)
NoAuxiliaryBelow(tc, node) ==
    \A x \in 1..Len(node.c) :
        /\ node.c[x].k = "t" => ~is_auxiliary(tc, node.c[x].l)
        /\ NoAuxiliaryBelow(tc, node.c[x])

\* C9: the tree returned by convert has no node with an auxiliary label other
\* than possibly the root: every auxiliary node below the root is removed
\* with its children spliced, in order, into the child list of its parent,
\* through nested auxiliary nodes too, and the root keeps its label.
C9_Flattened ==
    pc = "converted" =>
        LET tree == converted.tree
            out == converted.list[1]
        IN  /\ out.l = tree.l
            /\ NoAuxiliaryBelow(tree_converter, out)
            /\ out = Tuple(tree.l,
                           Concat([x \in 1..Len(tree.c) |->
                                      Spliced(tree_converter, tree.c[x])]))

\* C9's case: an auxiliary node below the root holding an auxiliary node that
\* is no leaf, under a root that is auxiliary itself
C9_Witness ==
    /\ pc = "converted"
    /\ is_auxiliary(tree_converter, converted.tree.l)
    /\ \E x \in 1..Len(converted.tree.c) :
           LET child == converted.tree.c[x]
           IN  /\ child.k = "t"
               /\ is_auxiliary(tree_converter, child.l)
               /\ \E y \in 1..Len(child.c) :
                      /\ child.c[y].k = "t"
                      /\ ~IsLeaf(child.c[y])
                      /\ is_auxiliary(tree_converter, child.c[y].l)

\* every child of every node is a labelled node, a leaf (label, word) apart
RECURSIVE ChildrenLabelled(_)
ChildrenLabelled(node) ==
    IsLeaf(node) \/ \A x \in 1..Len(node.c) :
                        node.c[x].k = "t" /\ ChildrenLabelled(node.c[x])

\* C10: convert preserves the leaves: every leaf (label, word) of the input
\* tree is in the output tree as the same pair, in the same order, and every
\* child of every output node is a labelled node, never a bare word.
C10_LeavesPreserved ==
    pc = "converted" =>
        /\ Leaves(converted.list[1]) = Leaves(converted.tree)
        /\ ChildrenLabelled(converted.list[1])

\* C17: tree enumeration is deterministic: for a fixed grammar, sentence and
\* POS constraints, the list of trees parse returns (which trees, in which
\* order) does not depend on the order in which the members of a chart cell
\* are iterated.
C17_Deterministic ==
    Parsed =>
        /\ parse(parser, sentence, pos_constraints, TRUE).trees = result.trees
        /\ parse(parser, sentence, pos_constraints, FALSE).trees = result.trees

\* C19: after convert_to_cnf, the production list of every left-hand side
\* holds no two equal productions, also when the input grammar lists one
\* production several times under one non-terminal.
C19_NoDuplicates ==
    pc = "cnf" =>
        \A k \in 1..Len(converter.grammar) :
            LET prods == converter.grammar[k].prods
            IN  \A x, y \in 1..Len(prods) : prods[x] = prods[y] => x = y

\* C19's case: an input grammar that lists a production twice, converted
C19_Witness ==
    /\ pc = "cnf"
    /\ \E k \in 1..Len(cfg) :
           \E x, y \in 1..Len(cfg[k].prods) : x # y /\ cfg[k].prods[x] = cfg[k].prods[y]
    /\ Len(Items(converter.grammar)) > 2

\* the parser loaded from a converter accepts w
Accepts(c, w) == parse(load_grammar_from_converter(NewParser, c), w, NoList, FALSE).success

\* C20: convert_to_cnf on a grammar that is already in CNF, its own output in
\* particular, yields a grammar that accepts the same sentences and satisfies
\* is_valid_cnf again; a second run introduces no start symbol and no
\* auxiliary non-terminal.
C20_Idempotent ==
    pc \in {"cnf", "cnf2"} /\ is_valid_cnf(previous) =>
        /\ is_valid_cnf(converter)
        /\ \A w \in Sentences : Accepts(converter, w) <=> Accepts(previous, w)
        /\ pc = "cnf2" =>
               /\ converter.start_symbol = previous.start_symbol
               /\ converter.non_terminals = previous.non_terminals

(***************************************************************************)
(* Properties of the validator and of EnglishParser.parse.                 *)
(***************************************************************************)
\* the validator has returned a pair (ok, errors)
Validated == agreement.called /\ ~agreement.raised

\* the tags and feature maps the validator was given
PosTags == record.pos_sequence

Features == morph_result.pos_sequences[1]

\* the errors of one kind among the validator's errors, in their order
ErrorsOfKind(kinds) == SelectSeq(agreement.errors, LAMBDA e : e[1] \in kinds)

\* the smallest member of a non-empty set of positions
Least(S) == CHOOSE x \in S : \A y \in S : x <= y

\* the first position after i whose tag is not JJ, JJR, JJS or RB; past the
\* end when there is none
NounPosition(i) ==
    Least({j \in (i + 1)..(Len(PosTags) + 1) :
               j = Len(PosTags) + 1 \/ PosTags[j] \notin {"JJ", "JJR", "JJS", "RB"}})

\* the determiner at i disagrees with the noun it stands before
DtMismatch(i) ==
    LET j == NounPosition(i)
    IN  /\ j <= Len(PosTags)
        /\ PosTags[j] \in {"NN", "NNS"}
        /\ Features[i].num \notin {"any", Missing}
        /\ Features[i].num # (IF PosTags[j] = "NN" THEN "sg" ELSE "pl")

\* the mismatch errors of the determiners from position i on
RECURSIVE ExpectedDtErrors(_)
ExpectedDtErrors(i) ==
    IF i > Len(PosTags) THEN <<>>
    ELSE (IF PosTags[i] = "DT" /\ DtMismatch(i)
          THEN LET j == NounPosition(i)
               IN  << <<"DT-Noun number disagreement", Features[i].num, PosTags[j],
                        IF PosTags[j] = "NN" THEN "sg" ELSE "pl">> >>
          ELSE <<>>)
         \o ExpectedDtErrors(i + 1)

\* C11: the determiner-noun errors of the validator are, in order, one
\* mismatch error for every DT whose num is neither 'any' nor absent and
\* differs from the number of the NN or NNS found after skipping JJ, JJR, JJS
\* and RB; no other DT gets an error and no DT is skipped.
C11_DtNounAgreement ==
    Validated => ErrorsOfKind({"DT-Noun number disagreement"}) = ExpectedDtErrors(1)

\* a determiner, an adjective and a noun that disagrees, the error emitted
C11_Witness ==
    /\ Validated
    /\ \E i \in 1..Len(PosTags) :
           PosTags[i] = "DT" /\ NounPosition(i) > i + 1 /\ DtMismatch(i)
    /\ ErrorsOfKind({"DT-Noun number disagreement"}) # <<>>

\* the subject is third-person singular
ThirdSingular(subj) == Get(subj, "person", "any") = "3" /\ Get(subj, "num", "any") = "sg"

\* C12: with a subject identified and v the first VBZ or VBP token, a
\* subject-verb error is emitted exactly when v is VBZ and the subject is
\* not third-person singular and has neither person nor num 'any', or v is
\* VBP and the subject is third-person singular, whatever the other features
\* of v; without a VBZ or VBP token no such error is emitted.
C12_SubjectVerb ==
    Validated =>
        LET subj == FindSubject(Features, PosTags)
            v == FirstTagged(PosTags, {"VBZ", "VBP"})
        IN  ErrorsOfKind({"Subject-Verb disagreement"}) # <<>>
            <=> /\ ~subj.none
                /\ v # 0
                /\ \/ /\ PosTags[v] = "VBZ"
                      /\ ~ThirdSingular(subj.f)
                      /\ Get(subj.f, "person", "any") # "any"
                      /\ Get(subj.f, "num", "any") # "any"
                   \/ PosTags[v] = "VBP" /\ ThirdSingular(subj.f)

SubcatKinds ==
    {"requires a preposition with its object", "does not take a direct object (NP)",
     "requires a prepositional phrase"}

\* the subcategorization error the first verb token calls for, if any
ExpectedSubcatErrors ==
    LET v == FirstTagged(PosTags, VerbTags)
        n == Len(PosTags)
    IN  IF v = 0 THEN <<>>
        ELSE LET lemma == Lower(Get(Features[v], "lemma", ""))
             IN  IF lemma \notin DOMAIN verb_subcat THEN <<>>
                 ELSE LET allows_np == AllowsNp(verb_subcat[lemma])
                          requires_pp == RequiresPp(verb_subcat[lemma])
                          hasNP == v < n /\ PosTags[v + 1] \in NpStartTags
                          hasPP == \E i \in (v + 1)..(n - 1) : PosTags[i] = "IN"
                      IN  IF hasNP /\ ~hasPP /\ requires_pp
                          THEN << <<"requires a preposition with its object", lemma>> >>
                          ELSE IF hasNP /\ ~hasPP /\ ~allows_np
                          THEN << <<"does not take a direct object (NP)", lemma>> >>
                          ELSE IF requires_pp /\ ~hasNP /\ ~hasPP /\ v < n
                          THEN << <<"requires a prepositional phrase", lemma>> >>
                          ELSE <<>>

\* C13: the subcategorization errors of the validator are the one error the
\* first verb token calls for by its entry (allows_np, requires_pp), hasNP and
\* hasPP, and none when no error is called for or the lemma has no entry.
C13_Subcategorization ==
    Validated => ErrorsOfKind(SubcatKinds) = ExpectedSubcatErrors

\* a verb that requires a prepositional phrase, followed by a noun phrase
\* and no preposition
C13_Witness ==
    /\ Validated
    /\ ErrorsOfKind({"requires a preposition with its object"}) # <<>>
    /\ Len(PosTags) = 3

\* the CKY parser has been called
CkyInvoked == \E i \in 1..Len(calls) : calls[i] = "cky_parser.parse"

\* C14: the validator runs before the CKY parser; once it has reported an
\* error the CKY parser is never invoked and the result is returned with
\* grammatical = false, the validator's errors and no trees; when it passes
\* and the CKY parser finds no analysis the result has grammatical = false
\* and the no-valid-parse message as its one error.
C14_ShortCircuit ==
    /\ [][CkyInvoked' /\ ~CkyInvoked => Validated /\ agreement.ok]_vars
    /\ [](Validated /\ ~agreement.ok =>
              /\ ~CkyInvoked
              /\ pc = "returned"
              /\ ~record.grammatical
              /\ record.errors = agreement.errors
              /\ record.parse_trees = <<>>)
    /\ [](pc = "returned" /\ agreement.ok /\ ~(result.success /\ Truthy(result.trees)) =>
              /\ ~record.grammatical
              /\ record.errors = << <<"No valid parse found for POS sequence">> >>)

\* a result returned with two errors of the validator
C14_Witness ==
    /\ pc = "returned"
    /\ Validated
    /\ Len(agreement.errors) >= 2
    /\ ~CkyInvoked

\* C15: a result record returned for a sentence of at least one token has
\* grammatical = true exactly when parse_trees is not empty and exactly when
\* errors is empty, and carries the tokens and the POS sequence used.
C15_ResultRecord ==
    pc = "returned" /\ Len(morph_result.tokens) >= 1 =>
        /\ record.grammatical <=> record.parse_trees # <<>>
        /\ record.grammatical <=> record.errors = <<>>
        /\ record.tokens = Some(morph_result.tokens)
        /\ record.pos_sequence = [i \in 1..Len(Features) |-> Features[i].pos]

\* a grammatical sentence returned with its tree
C15_Witness ==
    /\ pc = "returned"
    /\ Len(morph_result.tokens) >= 2
    /\ record.grammatical
    /\ record.parse_trees # <<>>

\* C16: when the tagger yields no token, parse returns a result record with
\* grammatical = false and an error message; no exception escapes.
C16_EmptyInput ==
    Len(morph_result.tokens) = 0 /\ pc \notin {"ready", "analyzed"} =>
        /\ pc = "returned"
        /\ ~record.grammatical
        /\ record.errors # <<>>

\* what parse(doc) gives on a newly constructed parser with no other call
\* running: raised, or the record returned
Alone(doc, order) ==
    LET m == analyze_sentence(doc)
        features == m.pos_sequences[1]
        pos_tags == [i \in 1..Len(features) |-> features[i].pos]
        rec == [NewResult EXCEPT !.tokens = Some(m.tokens), !.pos_sequence = pos_tags]
        agree == _check_tree_agreements(VerbSubcat, features, pos_tags)
        r == parse(load_grammar_from_converter(NewParser, converter),
                   [i \in 1..Len(m.tokens) |-> Lower(m.tokens[i])], Some(pos_tags), order)
        tc == load_original_grammar(NewTreeConverter, _load_lexicon_terminals(EnglishGrammar))
    IN  IF agree.raised THEN [raised |-> TRUE, record |-> rec]
        ELSE IF ~agree.ok
        THEN [raised |-> FALSE, record |-> RejectedRecord(rec, agree.errors)]
        ELSE [raised |-> FALSE, record |-> ParsedRecord(rec, tc, r.success, r.trees)]

\* the sequences a call hands to the validator, the CKY parser and the
\* tree converter
CallerSequences(c) == <<c.morph_result, c.record.tokens, c.record.pos_sequence>>

\* C18: no step of a parse invocation changes the loaded grammar, the rule
\* tables, the subcategorization map, the agreement rules or the token, POS
\* and feature sequences of a caller, and whatever the interleaving of two
\* invocations on one parser, each ends as it ends when it runs alone.
C18_ReadOnly ==
    /\ [][/\ cfg' = cfg
          /\ parser' = parser
          /\ tree_converter' = tree_converter
          /\ verb_subcat' = verb_subcat
          /\ agreement_rules' = agreement_rules
          /\ \A t \in Threads :
                 invocations[t].pc # "ready" =>
                     CallerSequences(invocations'[t]) = CallerSequences(invocations[t])]_vars
    /\ [](\A t \in Threads :
              LET c == invocations[t]
              IN  c.pc \in {"raised", "returned"} =>
                      /\ Alone(c.sentence, c.order).raised <=> c.pc = "raised"
                      /\ Alone(c.sentence, c.order).record = c.record)

\* one call has returned a grammatical sentence while the other, on another
\* sentence, has filled a part of its chart
C18_Witness ==
    /\ pc = "concurrent"
    /\ invocations[1].pc = "returned"
    /\ invocations[1].record.grammatical
    /\ invocations[2].pc = "filling"
    /\ invocations[2].sentence # invocations[1].sentence
    /\ invocations[2].spans # <<>>
    /\ Len(invocations[2].spans) < Len(Spans(Len(invocations[2].tokens_lower)))

(***************************************************************************)
(* Properties of the steps of convert_to_cnf.  In a state with pc = "cnf"  *)
(* previous is the converter the call started from.                        *)
(***************************************************************************)
\* the converter after Step 1, after Step 2 and before Step 3 of that call
AfterStep1 == _step1_add_new_start_symbol(previous)

AfterStep2 == _step2_eliminate_epsilon_productions(AfterStep1)

\* every name a grammar uses, as a key or on a right-hand side
Symbols(g) == Keys(g) \cup UNION {Range(it[2]) : it \in RuleSet(g)}

\* sym occurs on a right-hand side of g
OnRhs(g, sym) == \E it \in RuleSet(g) : InList(sym, it[2])

\* C21: if the input start symbol S occurs on a right-hand side, Step 1
\* introduces a fresh start symbol with the single production [S], otherwise
\* the start symbol stays S; after convert_to_cnf the start symbol occurs on
\* no right-hand side.
C21_StartSymbol ==
    pc = "cnf" =>
        /\ IF OnRhs(previous.grammar, previous.start_symbol)
           THEN /\ AfterStep1.start_symbol \notin Symbols(previous.grammar)
                /\ Prods(AfterStep1.grammar, AfterStep1.start_symbol)
                       = << <<previous.start_symbol>> >>
                /\ converter.start_symbol = AfterStep1.start_symbol
           ELSE /\ AfterStep1 = previous
                /\ converter.start_symbol = previous.start_symbol
        /\ ~OnRhs(converter.grammar, converter.start_symbol)

\* C24: the non-terminals convert_to_cnf generates differ from every name of
\* the grammar it started from, terminal or non-terminal, and the terminals
\* and the non-terminals stay disjoint.
C24_FreshNames ==
    pc \in {"cnf", "cnf2"} =>
        /\ (converter.non_terminals \ previous.non_terminals)
               \cap Symbols(previous.grammar) = {}
        /\ converter.terminals \cap converter.non_terminals = {}

\* N holds every A with A -> ε and every A with a production whose symbols
\* are all in N
NullableClosed(g, N) ==
    \A it \in RuleSet(g) :
        (it[2] = <<Eps>> \/ \A i \in 1..Len(it[2]) : it[2][i] \in N) => it[1] \in N

\* the least such set
LeastNullable(g) ==
    CHOOSE N \in SUBSET Keys(g) :
        /\ NullableClosed(g, N)
        /\ \A M \in SUBSET Keys(g) : NullableClosed(g, M) => N \subseteq M

\* alpha with the positions of the set drop deleted
RECURSIVE Without(_, _, _)
Without(alpha, drop, i) ==
    IF i > Len(alpha) THEN <<>>
    ELSE (IF i \in drop THEN <<>> ELSE <<alpha[i]>>) \o Without(alpha, drop, i + 1)

\* the non-empty results of deleting a subset of the nullable positions
Deletions(alpha, N) ==
    {Without(alpha, drop, 1) : drop \in SUBSET {i \in 1..Len(alpha) : alpha[i] \in N}}
        \ {<<>>}

\* C22: the nullable set of Step 2 is the least set that holds every A with
\* A -> ε and every A with a production of nullable symbols only; after the
\* step the grammar holds, for each production A -> α with α other than ε,
\* exactly the non-empty results of deleting a subset of α's nullable
\* positions, and an ε-production only on the start symbol and only when the
\* start symbol is nullable.
C22_EpsilonElimination ==
    pc = "cnf" =>
        LET g == AfterStep1.grammar
            N == LeastNullable(g)
            start == AfterStep1.start_symbol
        IN  /\ _find_nullable_variables(AfterStep1) = N
            /\ RuleSet(AfterStep2.grammar) =
                   UNION {{<<it[1], beta>> : beta \in Deletions(it[2], N)} :
                              it \in {r \in RuleSet(g) : r[2] # <<Eps>>}}
                   \cup (IF start \in N THEN {<<start, <<Eps>>>>} ELSE {})

\* a grammar with a non-terminal that is nullable only through another one,
\* and a nullable start symbol
C22_Witness ==
    /\ pc = "cnf"
    /\ \E A \in LeastNullable(AfterStep1.grammar) :
           <<A, <<Eps>>>> \notin RuleSet(AfterStep1.grammar)
    /\ <<AfterStep1.start_symbol, <<Eps>>>> \in RuleSet(AfterStep2.grammar)
    /\ \E it \in RuleSet(AfterStep1.grammar) :
           Cardinality(Deletions(it[2], LeastNullable(AfterStep1.grammar))) >= 3

\* the relation A -> B of the unit productions, B a non-terminal
UnitRelation(c) ==
    {<<it[1], it[2][1]>> : it \in {r \in RuleSet(c.grammar) :
                                       Len(r[2]) = 1 /\ r[2][1] \in c.non_terminals}}

\* the non-terminals reached from a along unit productions, a included,
\* without going through seen
RECURSIVE ReachedFrom(_, _, _)
ReachedFrom(R, a, seen) ==
    {a} \cup UNION {ReachedFrom(R, ab[2], seen \cup {a}) :
                        ab \in {q \in R : q[1] = a /\ q[2] \notin seen \cup {a}}}

\* the reflexive-transitive closure of R over the non-terminals V
RtClosure(R, V) == UNION {{<<a, b>> : b \in ReachedFrom(R, a, {})} : a \in V}

\* n passes of the closure loop
RECURSIVE UnitPasses(_, _)
UnitPasses(unit_pairs, n) ==
    IF n = 0 THEN unit_pairs ELSE UnitPasses(UnitPass(unit_pairs), n - 1)

\* C23: the closure loop of Step 3 stops, cycles of unit productions
\* included: a pass adds nothing after at most as many passes as there are
\* non-terminals; the unit pairs are the reflexive-transitive closure of the
\* relation A -> B; the resulting grammar gives each A exactly the non-unit
\* productions of every B with (A, B) in the closure and has no production
\* A -> B with B a single non-terminal.
C23_UnitElimination ==
    pc = "cnf" =>
        LET c == AfterStep2
            V == c.non_terminals
            closure == RtClosure(UnitRelation(c), V)
            first == {<<nt, nt>> : nt \in V} \cup UnitRelation(c)
            last == UnitPasses(first, Cardinality(V))
        IN  /\ UnitPass(last) = last
            /\ UnitPairs(c) = last
            /\ UnitPairs(c) = closure
            /\ \A rev \in BOOLEAN :
                   LET g3 == _step3_eliminate_unit_productions(c, rev).grammar
                   IN  /\ RuleSet(g3) =
                              UNION {{<<ab[1], it[2]>> :
                                         it \in {r \in RuleSet(c.grammar) :
                                                     /\ r[1] = ab[2]
                                                     /\ ~(Len(r[2]) = 1 /\ r[2][1] \in V)}} :
                                     ab \in closure}
                       /\ \A it \in RuleSet(g3) : ~(Len(it[2]) = 1 /\ it[2][1] \in V)

\* unit productions that form a cycle, and a pair found only by the closure
C23_Witness ==
    /\ pc = "cnf"
    /\ {<<"A", "B">>, <<"B", "A">>} \subseteq UnitRelation(AfterStep2)
    /\ \E ab \in UnitPairs(AfterStep2) :
           ab[1] # ab[2] /\ ab \notin UnitRelation(AfterStep2)

\* the grammar has a right-hand side of zero symbols
HasEmptyProduction(g) == \E it \in RuleSet(g) : it[2] = <<>>

\* C27: a grammar with an empty production that is not the ε-production is
\* rejected: parse_grammar and convert_to_cnf never produce a CNF grammar
\* from it.
C27_MalformedRejected == HasEmptyProduction(cfg) => pc \notin {"cnf", "cnf2", "loaded", "result"}

\* C25: once the original grammar is loaded, a name is auxiliary exactly when
\* it is in the explicit auxiliary set or is no non-terminal of the original
\* grammar; the prefixes decide nothing.
C25_PrefixOnlyFallback ==
    tree_converter.original_non_terminals # {} =>
        \A nt \in Keys(cfg) :
            is_auxiliary(tree_converter, nt) <=>
                \/ nt \in tree_converter.auxiliary_nts
                \/ nt \notin tree_converter.original_non_terminals

\* a CC among the first five tokens, not the first token, with a noun or a
\* pronoun somewhere before it and one somewhere after it
HasCoordination(pos_tags) ==
    \E c \in 2..Len(pos_tags) :
        /\ c <= 5
        /\ pos_tags[c] = "CC"
        /\ \E i \in 1..(c - 1) : pos_tags[i] \in {"NN", "NNS", "NNP", "NNPS", "PRP"}
        /\ \E j \in (c + 1)..Len(pos_tags) :
               pos_tags[j] \in {"NN", "NNS", "NNP", "NNPS", "PRP"}

\* C26: with such a CC the subject of subject-verb agreement is third person
\* plural, whatever an earlier pattern selected; without one it is the
\* subject of the first applicable pattern.
C26_CoordinatedSubject ==
    Validated =>
        FindSubject(Features, PosTags) =
            IF HasCoordination(PosTags) THEN ThirdPerson("pl")
            ELSE QuantifierSubject(PosTags,
                     IndefiniteSubject(Features, PosTags,
                         SubjectPatterns1To9(Features, PosTags)))

\* the frame names of the entries in the old list format
FrameNames == {"transitive", "ditransitive", "pp_required", "intransitive"}

\* the dict entry a list of frame names stands for
AsDictEntry(frames) ==
    DictEntry({"allows_np", "requires_pp"},
              "transitive" \in frames \/ "ditransitive" \in frames,
              "pp_required" \in frames)

\* verb_subcat with every list entry replaced by the dict entry it stands for
AsDictEntries(subcat) ==
    [lemma \in DOMAIN subcat |->
        IF subcat[lemma].format = "list" THEN AsDictEntry(subcat[lemma].frames)
        ELSE subcat[lemma]]

\* C28: a list entry and the dict entry with allows_np = 'transitive' or
\* 'ditransitive' in the list and requires_pp = 'pp_required' in the list
\* give the same subcategorization errors: the errors the validator returned
\* are those of the dict entries, and so are the errors for every list of
\* frame names given to any verb.
C28_EntryShapes ==
    Validated =>
        /\ ErrorsOfKind(SubcatKinds) =
               _check_verb_subcategorization(AsDictEntries(verb_subcat), PosTags, Features)
        /\ \A lemma \in DOMAIN verb_subcat, frames \in SUBSET FrameNames :
               _check_verb_subcategorization(
                   [verb_subcat EXCEPT ![lemma] = ListEntry(frames)], PosTags, Features)
               = _check_verb_subcategorization(
                   [verb_subcat EXCEPT ![lemma] = AsDictEntry(frames)], PosTags, Features)

\* the first verb has an entry in the list format and the validator has
\* returned a subcategorization error for it
C28_Witness ==
    /\ Validated
    /\ \E i \in 1..Len(PosTags) :
           /\ i = FirstTagged(PosTags, VerbTags)
           /\ Lower(Get(Features[i], "lemma", "")) \in DOMAIN verb_subcat
           /\ verb_subcat[Lower(Get(Features[i], "lemma", ""))].format = "list"
    /\ ErrorsOfKind(SubcatKinds) # <<>>

\* C29: after a second load_grammar the lookup tables hold exactly the rules
\* of the grammar loaded last, each once, as a parser loaded with that grammar
\* alone holds them, and a parse returns what that parser returns.
C29_LastGrammarOnly ==
    pc \in {"reloaded", "reparsed"} =>
        LET fresh == load_grammar(NewParser, cfg, "S")
        IN  /\ parser.terminal_rules = fresh.terminal_rules
            /\ parser.binary_rules = fresh.binary_rules
            /\ pc = "reparsed" =>
                   \E rev \in BOOLEAN :
                       LET r == parse(fresh, sentence, NoList, rev)
                       IN  result = [success |-> r.success, trees |-> r.trees]

\* a tree with the word of every leaf blanked
RECURSIVE Unworded(_)
Unworded(node) ==
    IF node.k = "w" THEN Word("")
    ELSE Tuple(node.l, [x \in 1..Len(node.c) |-> Unworded(node.c[x])])

\* C30: with POS constraints, another token sequence of the same length gives
\* the same success value and the same trees but for the words at the leaves,
\* leaf i being (p_i, w_i): the tokens are never looked up in the terminal
\* rules.
C30_TokenIndependent ==
    pc = "result" /\ Truthy(pos_constraints) =>
        \A other \in [1..Len(sentence) -> Words] :
            \E rev \in BOOLEAN :
                LET mine == parse(parser, sentence, pos_constraints, rev)
                    theirs == parse(parser, other, pos_constraints, rev)
                IN  /\ result = [success |-> mine.success, trees |-> mine.trees]
                    /\ theirs.success = result.success
                    /\ result.success =>
                           /\ Len(theirs.trees.list) = Len(result.trees.list)
                           /\ \A t \in 1..Len(result.trees.list) :
                                  /\ Unworded(theirs.trees.list[t])
                                         = Unworded(result.trees.list[t])
                                  /\ Leaves(theirs.trees.list[t])
                                         = [i \in 1..Len(other) |->
                                               <<pos_constraints.list[i], other[i]>>]

\* a sentence accepted under POS constraints that holds a terminal of the
\* grammar and a token the grammar does not know, and is rejected when its
\* tokens are looked up
C30_Witness ==
    /\ pc = "result"
    /\ Truthy(pos_constraints)
    /\ result.success
    /\ \E i \in 1..Len(sentence) : sentence[i] \in parser.terminals
    /\ \E i \in 1..Len(sentence) : sentence[i] \notin parser.terminals
    /\ ~parse(parser, sentence, NoList, FALSE).success

=============================================================================
